---- MODULE Spec2Model ----
(***************************************************************************)
(* Interactive fuzzy search of gg (src/tui/app.rs, src/tui/matcher.rs,     *)
(* src/domain/repo.rs).                                                    *)
(*                                                                         *)
(* Strings are sequences of one-character strings.  A timestamp            *)
(* last_accessed_at is kept as the signed elapsed time Utc::now() - last,  *)
(* counted in half days, so that chrono's num_days() (whole days,          *)
(* truncated towards zero) is a real conversion.  An Option is a sequence: *)
(* None is << >>, Some(x) is << x >>.                                      *)
(* The clock is taken as fixed for the length of a session.                *)
(*                                                                         *)
(* RepoMatcher drives the nucleo engine through four calls: injector.push, *)
(* pattern.reparse, tick and snapshot.  The engine state behind those      *)
(* calls is modelled with the n_ (driver side) and w_ (worker, behind the  *)
(* worker mutex) variables.                                                *)
(***************************************************************************)
EXTENDS Integers, Sequences, FiniteSets, TLC

\* Number of pattern edits (character or backspace events) in a session.
MaxEdits == 4
\* Largest access_count and largest elapsed time (half days) of a probed Repo.
MaxCount == 12
MaxHalfDays == 64

None == << >>
Some(x) == << x >>
\* No run holds the worker lock.
NoJob == "NoJob"

\* Characters the keyboard delivers: letters, an upper-case letter and the
\* negation character of the engine's pattern syntax.
Chars == {"a", "x", "A", "!"}

Max(a, b) == IF a >= b THEN a ELSE b

\* ---------------------------------------------------------------- corpora

NewRepo(full_name, access_count, last_accessed_at) ==
    [full_name |-> full_name, access_count |-> access_count,
     last_accessed_at |-> last_accessed_at]

NewOrg(login, access_count, last_accessed_at) ==
    [login |-> login, access_count |-> access_count,
     last_accessed_at |-> last_accessed_at]

\* The cached data a session can be started on (Cache::load_repos,
\* Cache::load_orgs): repositories and organizations, in load order.
Corpora ==
    { [repos |-> << >>, orgs |-> << >>],
      [repos |-> << NewRepo(<<"a", "/", "x">>, 0, None),
                    NewRepo(<<"a", "/", "y">>, 10, Some(4)) >>,
       orgs  |-> << >>],
      [repos |-> << NewRepo(<<"a", "/", "x">>, 0, None),
                    NewRepo(<<"a", "/", "y">>, 10, Some(4)) >>,
       orgs  |-> << NewOrg(<<"a">>, 0, None) >>],
      [repos |-> << NewRepo(<<"a", "a", "/", "x">>, 0, None),
                    NewRepo(<<"a", "/", "x">>, 0, None) >>,
       orgs  |-> << NewOrg(<<"a", "a">>, 0, None) >>],
      [repos |-> << NewRepo(<<"y", "a", "/", "y", "x">>, 10, Some(4)),
                    NewRepo(<<"a", "x", "/", "y">>, 0, None) >>,
       orgs  |-> << >>] }

\* ------------------------------------------------------------ domain::Repo

\* chrono::Duration::num_days: whole days, truncated towards zero.
num_days(halfDays) ==
    IF halfDays >= 0 THEN halfDays \div 2 ELSE -((-halfDays) \div 2)

\* Mutant of days_since: the clamp .max(0) is missing.
days_since_unclamped(repo) ==
    IF repo.last_accessed_at = None THEN 30
    ELSE num_days(repo.last_accessed_at[1])

\* Mutant of days_since: a never-accessed repo counts as accessed today.
days_since_none_today(repo) ==
    IF repo.last_accessed_at = None THEN 0
    ELSE Max(num_days(repo.last_accessed_at[1]), 0)

\* The match on last_accessed_at in Repo::score.
days_since(repo) ==
    IF repo.last_accessed_at = None THEN 30
    ELSE Max(num_days(repo.last_accessed_at[1]), 0)

\* Repo::score as the fraction num/den (den = 0 is the f64 division by zero).
score(repo) ==
    [num |-> repo.access_count, den |-> days_since(repo) + 1]

\* ------------------------------------------------- RepoMatcher: the scores

\* Mutant of usage_bonus: the cap .min(30.0) is missing.
usage_bonus_uncapped(repo) ==
    LET s == score(repo) IN
    IF s.den = 0 THEN [num |-> 30, den |-> 1]
    ELSE IF s.den > 0 THEN [num |-> 10 * s.num, den |-> s.den]
         ELSE [num |-> -10 * s.num, den |-> -s.den]

\* (usage_score * 10.0).min(30.0) as a fraction.  f64: x/0 is +inf for x > 0
\* and NaN for x = 0, and both inf.min(30) and NaN.min(30) are 30.
usage_bonus(repo) ==
    LET s == score(repo) IN
    IF s.den = 0 THEN [num |-> 30, den |-> 1]
    ELSE IF (s.den > 0 /\ 10 * s.num >= 30 * s.den)
            \/ (s.den < 0 /\ 10 * s.num <= 30 * s.den)
         THEN [num |-> 30, den |-> 1]
         ELSE IF s.den > 0 THEN [num |-> 10 * s.num, den |-> s.den]
              ELSE [num |-> -10 * s.num, den |-> -s.den]

\* Mutant of combined_score: the usage bonus is left out.
combined_score_fuzzy_only(item, fuzzy_score) ==
    [num |-> fuzzy_score, den |-> 1]

\* combined_score(item, fuzzy_score) = fuzzy_score + usage_bonus.
combined_score(item, fuzzy_score) ==
    LET b == usage_bonus(item.repo) IN
    [num |-> fuzzy_score * b.den + b.num, den |-> b.den]

\* a < b for fractions with positive denominators.
FracLess(a, b) == a.num * b.den < b.num * a.den

\* ------------------------------------------------------------------ strings

Lower(c) == IF c = "A" THEN "a" ELSE c

ToLower(s) == [i \in 1..Len(s) |-> Lower(s[i])]

RECURSIVE IsSubsequence(_, _)
\* needle occurs in hay as an ordered, not necessarily contiguous, subsequence.
IsSubsequence(needle, hay) ==
    IF needle = << >> THEN TRUE
    ELSE IF hay = << >> THEN FALSE
    ELSE IF Head(needle) = Head(hay)
         THEN IsSubsequence(Tail(needle), Tail(hay))
         ELSE IsSubsequence(needle, Tail(hay))

\* needle occurs in hay as a contiguous run.
IsSubstring(needle, hay) ==
    \E i \in 0..(Len(hay) - Len(needle)) :
        \A k \in 1..Len(needle) : hay[i + k] = needle[k]

\* ------------------------------------------- nucleo: pattern.reparse(text)

\* Mutant of ParseAtoms: the needle keeps its case (CaseMatching::Respect).
ParseAtomsRespectCase(text) ==
    IF text = << >> THEN << >>
    ELSE IF Head(text) = "!"
         THEN IF Tail(text) = << >> THEN << >>
              ELSE << [negative |-> TRUE, needle |-> Tail(text)] >>
         ELSE << [negative |-> FALSE, needle |-> text] >>

\* The atoms nucleo's Pattern::reparse parses out of the text.  Without white
\* space the text is one atom: a leading "!" makes it a negated substring atom
\* (inverse atoms are never fuzzy), anything else a fuzzy atom; atoms with an
\* empty needle are dropped.  CaseMatching::Ignore lower-cases the needle.
ParseAtoms(text) ==
    IF text = << >> THEN << >>
    ELSE IF Head(text) = "!"
         THEN IF Tail(text) = << >> THEN << >>
              ELSE << [negative |-> TRUE, needle |-> ToLower(Tail(text))] >>
         ELSE << [negative |-> FALSE, needle |-> ToLower(text)] >>

\* Atom::score(haystack).is_some(): the haystack is compared case-insensitively.
AtomMatches(atom, hay) ==
    IF atom.negative THEN ~IsSubstring(atom.needle, ToLower(hay))
    ELSE IsSubsequence(atom.needle, ToLower(hay))

\* Pattern::score(haystack).is_some(): every atom matches.
PatternMatches(atoms, hay) ==
    \A k \in 1..Len(atoms) : AtomMatches(atoms[k], hay)

\* bonus_for(prev_class, class) for a lower-case letter at position q: the
\* start of the haystack counts as following white space (10), a letter after
\* the delimiter "/" gets the delimiter boundary bonus (9).
PositionBonus(hay, q) ==
    IF q = 1 THEN 10
    ELSE IF hay[q - 1] = "/" /\ hay[q] # "/" THEN 9 ELSE 0

RECURSIVE BestAlignment(_, _, _, _, _)
\* Best score of matching needle[k..] after position prev of hay, first being
\* the bonus that opened the current run of consecutive matches; -1000 when
\* needle[k..] does not fit.  Each matched character scores 16 plus its bonus
\* (doubled for the first needle character; within a run at least 4 and at
\* least the run's opening bonus); a gap of g characters between two matches
\* costs 3 + (g - 1).
BestAlignment(needle, hay, k, prev, first) ==
    IF k > Len(needle) THEN 0
    ELSE LET cands == { q \in (prev + 1)..Len(hay) : hay[q] = needle[k] }
             Val(q) ==
                 LET b0 == PositionBonus(hay, q)
                     consecutive == k > 1 /\ q = prev + 1
                     nfirst == IF consecutive
                               THEN (IF b0 >= 8 /\ b0 > first THEN b0 ELSE first)
                               ELSE b0
                     b == IF k = 1 THEN 2 * b0
                          ELSE IF consecutive THEN Max(Max(b0, 4), nfirst)
                          ELSE b0
                     gap == IF k = 1 \/ consecutive THEN 0
                            ELSE 3 + (q - prev - 2)
                     rest == BestAlignment(needle, hay, k + 1, q, nfirst)
                 IN IF rest = -1000 THEN -1000 ELSE 16 + b - gap + rest
             vals == { Val(q) : q \in cands } \ { -1000 }
         IN IF vals = {} THEN -1000
            ELSE CHOOSE v \in vals : \A w \in vals : w <= v

\* Atom::score: the engine's fuzzy match quality (0 for a negated atom).
AtomScore(atom, hay) ==
    IF atom.negative THEN 0
    ELSE BestAlignment(atom.needle, ToLower(hay), 1, 0, 0)

\* Pattern::score: the sum over the atoms.
PatternScore(atoms, hay) ==
    IF atoms = << >> THEN 0 ELSE AtomScore(atoms[1], hay)

\* -------------------------------------------------------------------- state

VARIABLES
    input_pattern,   \* App.input_pattern
    selected_index,  \* App.selected_index
    should_exit,     \* App.should_exit
    total_orgs,      \* App.total_orgs
    total_repos,     \* App.total_repos
    last_action,     \* what the last handle_key_event returned (None or a URL)
    pattern,         \* RepoMatcher.pattern
    items,           \* RepoMatcher.items
    n_items,         \* nucleo: the strings pushed through the injector
    n_atoms,         \* nucleo.pattern: the parsed column pattern
    n_status,        \* nucleo.pattern: Unchanged, Update or Rescore
    n_canceled,      \* nucleo: the cancel flag shared with the worker
    snapshot,        \* nucleo.snapshot(): matched item indices, in engine order
    w_job,           \* worker: NoJob, or the status of the run that holds the lock
    w_atoms,         \* worker: its copy of the pattern
    w_matches,       \* worker: its matches
    w_item_count,    \* worker: number of injected items it has processed
    w_running,       \* worker: a run has finished that the driver has not seen
    w_was_canceled,  \* worker: the last run was canceled
    tick_pc,         \* where run()'s loop is: tick (about to tick), lock and
                     \* trylock (inside Nucleo::tick), poll, done
    tick_status,     \* the pattern status Nucleo::tick read on entry
    edits,           \* number of pattern edits so far
    issued,          \* every pattern text the engine was given
    before_edit,     \* the kind of the last pattern edit, the pattern it
                     \* was applied to and the matched set on screen when it
                     \* arrived (None unless converged)
    probe,           \* a Repo whose usage score is computed
    probe_out,       \* the scores computed for probe
    run_pc,          \* where run() is outside its loop: tty, load, raw, alt,
                     \* term, loop, disable, leave, open, record, returned
    raw_mode,        \* the terminal is in raw mode
    alt_screen,      \* the terminal shows the alternate screen
    run_result,      \* None while run() runs, then Some("Ok") or Some("Err")
    opened,          \* None, or the URL open::that was given
    db_repos,        \* the cache's repos table, a set of rows
    db_orgs,         \* the cache's orgs table, a set of rows
    clock,           \* Utc::now(), an instant counted in half days
    cache_op,        \* the last writing call on the cache: its kind, its
                     \* argument, whether it returned Ok, both tables
                     \* before it, for record_repo_access the number of
                     \* successful calls in a row for the same name and the
                     \* repos table before the first of them, the number
                     \* of calls so far, and what was loaded after it
    remote_url,      \* the remote URL parse_github_url is given
    parsed,          \* None, or what parse_github_url returned
    api_runs,        \* None, or the workflow_runs the API lists, in its order
    watch,           \* None, or what watch_action did: how far it got, what
                     \* fetch_workflow_runs returned, and its own result
    api_pages,       \* None, or the page requests of a fetch_repos call so
                     \* far, each with the API's answer
    fetch,           \* None, or the state of a fetch_repos call: where it
                     \* is, its locals and, once returned, its result
    raycast          \* None, or the Raycast search command: where it is,
                     \* its query and count and, once printed, its output

appVars == << input_pattern, selected_index, should_exit, total_orgs,
              total_repos, last_action >>
corpusVars == << items, n_items >>
patternVars == << pattern, n_atoms, n_status, issued, edits, before_edit >>
workerVars == << w_job, w_atoms, w_matches, w_item_count, w_running,
                 w_was_canceled >>
tickVars == << tick_pc, tick_status >>
probeVars == << probe, probe_out >>
sessionVars == << run_pc, raw_mode, alt_screen, run_result, opened >>
cacheVars == << db_repos, db_orgs, clock, cache_op >>
gitVars == << remote_url, parsed >>
githubVars == << api_runs, watch, api_pages, fetch >>
\* Everything outside the App and its matcher.
outsideVars == << probeVars, sessionVars, cacheVars, gitVars, githubVars,
                 raycast >>
vars == << appVars, corpusVars, patternVars, workerVars, tickVars,
           outsideVars, n_canceled, snapshot >>

\* ------------------------------------------------- infrastructure::Cache

\* A row of a table keeps id, the unique name, the usage columns and, of a
\* repository, owner_id and private (stored as an integer).  The other
\* columns (name, owner_login, description, language, default_branch,
\* avatar_url) are text that is stored and loaded as it is and are left out.
\* An instant is a whole number of half days; last_accessed_at is stored as
\* RFC 3339 text.

\* DateTime::to_rfc3339
to_rfc3339(t) == << "rfc3339", t >>

\* str::parse::<DateTime<Utc>>().unwrap() of a stored text
ParseDateTime(text) == text[2]

\* Repo::new: a repository as the GitHub API delivers it, never accessed.
RepoNew(id, full_name, owner_id, private) ==
    [id |-> id, full_name |-> full_name, owner_id |-> owner_id,
     private |-> private, last_accessed_at |-> None, access_count |-> 0]

\* Org::new: an organization as the GitHub API delivers it, never accessed.
OrgNew(id, login) ==
    [id |-> id, login |-> login, last_accessed_at |-> None,
     access_count |-> 0]

\* The params! of store_repos: the row a Repo is written as.
RepoRow(repo) ==
    [id |-> repo.id, full_name |-> repo.full_name,
     owner_id |-> repo.owner_id,
     private |-> IF repo.private THEN 1 ELSE 0,
     last_accessed_at |->
         IF repo.last_accessed_at = None THEN None
         ELSE Some(to_rfc3339(repo.last_accessed_at[1])),
     access_count |-> repo.access_count]

\* The params! of store_orgs: the row an Org is written as.
OrgRow(org) ==
    [id |-> org.id, login |-> org.login,
     last_accessed_at |->
         IF org.last_accessed_at = None THEN None
         ELSE Some(to_rfc3339(org.last_accessed_at[1])),
     access_count |-> org.access_count]

\* The closure of load_repos: the Repo a row is read as.
RepoOfRow(row) ==
    [id |-> row.id, full_name |-> row.full_name, owner_id |-> row.owner_id,
     private |-> row.private # 0,
     last_accessed_at |->
         IF row.last_accessed_at = None THEN None
         ELSE Some(ParseDateTime(row.last_accessed_at[1])),
     access_count |-> row.access_count]

\* The closure of load_orgs: the Org a row is read as.
OrgOfRow(row) ==
    [id |-> row.id, login |-> row.login,
     last_accessed_at |->
         IF row.last_accessed_at = None THEN None
         ELSE Some(ParseDateTime(row.last_accessed_at[1])),
     access_count |-> row.access_count]

\* INSERT OR REPLACE INTO repos: the rows that clash with the new row on the
\* primary key id or on the unique full_name are deleted, then it is inserted.
InsertOrReplaceRepo(table, row) ==
    { r \in table : r.id # row.id /\ r.full_name # row.full_name }
        \cup { row }

\* INSERT OR REPLACE INTO orgs: primary key id, unique login.
InsertOrReplaceOrg(table, row) ==
    { r \in table : r.id # row.id /\ r.login # row.login } \cup { row }

\* The for loop of store_repos.
RECURSIVE InsertRepos(_, _)
InsertRepos(table, repos) ==
    IF repos = << >> THEN table
    ELSE InsertRepos(InsertOrReplaceRepo(table, RepoRow(Head(repos))),
                     Tail(repos))

\* The for loop of store_orgs.
RECURSIVE InsertOrgs(_, _)
InsertOrgs(table, orgs) ==
    IF orgs = << >> THEN table
    ELSE InsertOrgs(InsertOrReplaceOrg(table, OrgRow(Head(orgs))), Tail(orgs))

\* Cache::store_repos, committed: the rows whose owner_id is no owner_id of
\* the new repos are deleted (every row when there are no new repos), then
\* the new repos are written one by one.
store_repos(table, repos) ==
    LET valid_owner_ids == { repos[i].owner_id : i \in 1..Len(repos) }
        kept == IF valid_owner_ids = {} THEN {}
                ELSE { r \in table : r.owner_id \in valid_owner_ids }
    IN InsertRepos(kept, repos)

\* Cache::store_orgs, committed: nothing is deleted first.
store_orgs(table, orgs) == InsertOrgs(table, orgs)

\* SELECT ... FROM a table without ORDER BY: the rows in rowid order, which
\* is the order of the INTEGER PRIMARY KEY id.
RECURSIVE RowsById(_)
RowsById(table) ==
    IF table = {} THEN << >>
    ELSE LET r == CHOOSE r \in table : \A q \in table : r.id <= q.id
         IN << r >> \o RowsById(table \ { r })

\* Cache::load_repos
load_repos(table) ==
    LET rows == RowsById(table)
    IN [i \in 1..Len(rows) |-> RepoOfRow(rows[i])]

\* Cache::load_orgs
load_orgs(table) ==
    LET rows == RowsById(table)
    IN [i \in 1..Len(rows) |-> OrgOfRow(rows[i])]

\* Mutant of record_repo_access: the UPDATE has no WHERE clause.
record_repo_access_all(table, full_name, now) ==
    { [r EXCEPT !.access_count = @ + 1,
                !.last_accessed_at = Some(to_rfc3339(now))] : r \in table }

\* Cache::record_repo_access: the UPDATE of the rows WHERE full_name = ?2.
record_repo_access(table, full_name, now) ==
    { IF r.full_name = full_name
      THEN [r EXCEPT !.access_count = @ + 1,
                     !.last_accessed_at = Some(to_rfc3339(now))]
      ELSE r : r \in table }

\* str::split(sep): the parts between the separators, in order.
RECURSIVE Split(_, _)
Split(s, sep) ==
    IF \A i \in 1..Len(s) : s[i] # sep THEN << s >>
    ELSE LET i == CHOOSE i \in 1..Len(s) :
                     s[i] = sep /\ \A j \in 1..(i - 1) : s[j] # sep
         IN << SubSeq(s, 1, i - 1) >> \o Split(SubSeq(s, i + 1, Len(s)), sep)

\* The GitHub account ids of the owners that appear in the corpora and in the
\* upstream data.
OwnerId(login) ==
    CASE login = << "a" >> -> 11
      [] login = << "a", "a" >> -> 12
      [] login = << "y", "a" >> -> 13
      [] login = << "a", "x" >> -> 14
      [] OTHER -> 15

\* The repos table a corpus was loaded from by a session started at instant
\* now: the ids follow the load order.
CachedRepos(c, now) ==
    { RepoRow([id |-> i, full_name |-> c.repos[i].full_name,
               owner_id |-> OwnerId(Split(c.repos[i].full_name, "/")[1]),
               private |-> FALSE,
               last_accessed_at |->
                   IF c.repos[i].last_accessed_at = None THEN None
                   ELSE Some(now - c.repos[i].last_accessed_at[1]),
               access_count |-> c.repos[i].access_count]) :
        i \in 1..Len(c.repos) }

\* The orgs table a corpus was loaded from.
CachedOrgs(c, now) ==
    { OrgRow([id |-> OwnerId(c.orgs[i].login), login |-> c.orgs[i].login,
              last_accessed_at |->
                  IF c.orgs[i].last_accessed_at = None THEN None
                  ELSE Some(now - c.orgs[i].last_accessed_at[1]),
              access_count |-> c.orgs[i].access_count]) :
        i \in 1..Len(c.orgs) }

\* A loaded Repo as the session keeps it: last_accessed_at becomes the time
\* elapsed at the session's clock.
SessionRepo(repo) ==
    NewRepo(repo.full_name, repo.access_count,
            IF repo.last_accessed_at = None THEN None
            ELSE Some(clock - repo.last_accessed_at[1]))

\* A loaded Org as the session keeps it.
SessionOrg(org) ==
    NewOrg(org.login, org.access_count,
           IF org.last_accessed_at = None THEN None
           ELSE Some(clock - org.last_accessed_at[1]))

\* What a session loads from a repos table.
SessionRepos(table) ==
    LET repos == load_repos(table)
    IN [i \in 1..Len(repos) |-> SessionRepo(repos[i])]

\* What a session loads from an orgs table.
SessionOrgs(table) ==
    LET orgs == load_orgs(table)
    IN [i \in 1..Len(orgs) |-> SessionOrg(orgs[i])]

\* No call on the cache has been made.
NoCacheOp ==
    [kind |-> "none", arg |-> None, ok |-> TRUE, repos_before |-> {},
     orgs_before |-> {}, calls |-> 0, repos_first |-> {}, n |-> 0,
     loaded |-> None]

\* A call of Cache::record_repo_access(full_name) at the instant clock:
\* conn.execute(...)? succeeds (with any number of rows changed) or fails.
RecordCall(full_name, ok) ==
    /\ db_repos' = IF ok THEN record_repo_access(db_repos, full_name, clock)
                   ELSE db_repos
    /\ cache_op' =
          LET again == /\ cache_op.kind = "record_repo_access"
                       /\ cache_op.ok
                       /\ cache_op.arg = full_name
          IN [kind |-> "record_repo_access", arg |-> full_name, ok |-> ok,
              repos_before |-> db_repos, orgs_before |-> db_orgs,
              calls |-> IF ~ok THEN 0
                        ELSE IF again THEN cache_op.calls + 1 ELSE 1,
              repos_first |-> IF ok /\ again THEN cache_op.repos_first
                              ELSE db_repos,
              n |-> cache_op.n + 1, loaded |-> None]

\* ------------------------------------------------------- RepoMatcher::new

Url(full_name) == << "https://github.com/" >> \o full_name

\* RepoItem::new
NewRepoItem(repo) ==
    [full_name |-> repo.full_name, repo |-> repo, url |-> Url(repo.full_name)]

\* The pseudo repo RepoMatcher::new builds for an organization.
PseudoRepo(org) ==
    NewRepo(org.login \o << "/" >>, org.access_count, org.last_accessed_at)

\* all_names: the repos' full names, then "<login>/" for every org.
AllNames(repos, orgs) ==
    [i \in 1..(Len(repos) + Len(orgs)) |->
        IF i <= Len(repos) THEN repos[i].full_name
        ELSE orgs[i - Len(repos)].login \o << "/" >>]

\* items: a RepoItem for every repo, then one for every org.
AllItems(repos, orgs) ==
    [i \in 1..(Len(repos) + Len(orgs)) |->
        IF i <= Len(repos) THEN NewRepoItem(repos[i])
        ELSE NewRepoItem(PseudoRepo(orgs[i - Len(repos)]))]

\* App::new(repos, orgs): nothing has been matched yet, the snapshot is empty.
AppNew(repos, orgs) ==
    /\ input_pattern = << >>
    /\ selected_index = 0
    /\ should_exit = FALSE
    /\ total_orgs = Len(orgs)
    /\ total_repos = Len(repos)
    /\ last_action = None
    /\ pattern = << >>
    /\ items = AllItems(repos, orgs)
    /\ n_items = AllNames(repos, orgs)
    /\ n_atoms = << >>
    /\ n_status = "Unchanged"
    /\ n_canceled = FALSE
    /\ snapshot = << >>
    /\ w_job = NoJob
    /\ w_atoms = << >>
    /\ w_matches = << >>
    /\ w_item_count = 0
    /\ w_running = FALSE
    /\ w_was_canceled = FALSE
    /\ tick_pc = "tick"
    /\ tick_status = "Unchanged"
    /\ edits = 0
    /\ issued = { << >> }
    /\ before_edit = [kind |-> "none", shown |-> None, text |-> << >>]

\* The cache holds corpus c and no call on it has been made.
CacheHolds(c) ==
    /\ clock = 0
    /\ db_repos = CachedRepos(c, clock)
    /\ db_orgs = CachedOrgs(c, clock)
    /\ cache_op = NoCacheOp

\* run() has set the terminal up and is about to enter its loop.
TerminalSetUp ==
    /\ run_pc = "loop"
    /\ raw_mode = TRUE
    /\ alt_screen = TRUE
    /\ run_result = None
    /\ opened = None

\* No probe is under way.
NoProbe ==
    /\ probe = None
    /\ probe_out = None

\* No remote URL is being parsed.
NoRemote ==
    /\ remote_url = None
    /\ parsed = None

\* No request to the GitHub API is under way.
NoGitHub ==
    /\ api_runs = None
    /\ watch = None
    /\ api_pages = None
    /\ fetch = None

\* No Raycast command is under way.
NoRaycast == raycast = None

Init ==
    /\ \E c \in Corpora : CacheHolds(c)
    /\ AppNew(SessionRepos(db_repos), SessionOrgs(db_orgs))
    /\ TerminalSetUp
    /\ NoProbe
    /\ NoRemote
    /\ NoGitHub
    /\ NoRaycast

\* --------------------------------------------------- RepoMatcher: the reads

\* RepoMatcher::match_count
match_count == Len(snapshot)

\* Mutant of FindItem: the search stops before the last RepoItem.
FindItemShort(name) ==
    IF \E k \in 1..(Len(items) - 1) : items[k].full_name = name
    THEN CHOOSE k \in 1..(Len(items) - 1) :
            /\ items[k].full_name = name
            /\ \A m \in 1..(k - 1) : items[m].full_name # name
    ELSE 0

\* self.items.iter().find(|ri| &ri.full_name == item.data): the position of
\* the first RepoItem with that name, 0 when there is none.
FindItem(name) ==
    IF \E k \in 1..Len(items) : items[k].full_name = name
    THEN CHOOSE k \in 1..Len(items) :
            /\ items[k].full_name = name
            /\ \A m \in 1..(k - 1) : items[m].full_name # name
    ELSE 0

\* The filter_map of matches_sorted: the snapshot's items, in snapshot order,
\* as positions in self.items; an item that is not found is left out.
RECURSIVE Looked(_)
Looked(snap) ==
    IF snap = << >> THEN << >>
    ELSE LET k == FindItem(n_items[Head(snap)])
         IN (IF k = 0 THEN << >> ELSE << k >>) \o Looked(Tail(snap))

\* The fuzzy score matches_sorted gives every matched item.
DefaultFuzzyScore == 100

\* The key matches.sort_by compares, for the item at position k of self.items.
SortKey(k) == combined_score(items[k], DefaultFuzzyScore)

\* Mutant of InsertStable: an item goes in front of the items of equal key.
InsertUnstable(sorted, k) ==
    LET before == { p \in 1..Len(sorted) : ~FracLess(SortKey(k), SortKey(sorted[p])) }
        at == IF before = {} THEN Len(sorted) + 1
              ELSE CHOOSE p \in before : \A r \in before : p <= r
    IN SubSeq(sorted, 1, at - 1) \o << k >> \o SubSeq(sorted, at, Len(sorted))

\* One step of the stable sort by descending key: k goes behind every item
\* whose key is greater than or equal to its own.
InsertStable(sorted, k) ==
    LET before == { p \in 1..Len(sorted) : FracLess(SortKey(sorted[p]), SortKey(k)) }
        at == IF before = {} THEN Len(sorted) + 1
              ELSE CHOOSE p \in before : \A r \in before : p <= r
    IN SubSeq(sorted, 1, at - 1) \o << k >> \o SubSeq(sorted, at, Len(sorted))

\* matches.sort_by(|a, b| score_b.partial_cmp(&score_a)...): a stable sort.
RECURSIVE SortByScore(_)
SortByScore(seq) ==
    IF seq = << >> THEN << >>
    ELSE InsertStable(SortByScore(SubSeq(seq, 1, Len(seq) - 1)), seq[Len(seq)])

\* RepoMatcher::matches_sorted, as positions in self.items.
matches_sorted == SortByScore(Looked(snapshot))

\* App::selected_item: matches.get(self.selected_index), 0 for Option::None.
selected_item ==
    LET matches == matches_sorted
    IN IF selected_index < Len(matches)
       THEN matches[selected_index + 1] ELSE 0

\* ui::render_list: the rows of the list widget, one per entry of matches()
\* with its full_name as text, and the row the ListState selects.
render_list ==
    [rows |-> [i \in 1..Len(matches_sorted) |->
                  items[matches_sorted[i]].full_name],
     selected |-> Some(selected_index)]

\* -------------------------------------------------- nucleo: the worker run

\* The order the worker sorts its matches in: higher score first, then the
\* shorter haystack, then the lower item index.
WorkerBefore(atoms, i, j) ==
    LET si == PatternScore(atoms, n_items[i])
        sj == PatternScore(atoms, n_items[j])
    IN IF si # sj THEN si > sj
       ELSE IF Len(n_items[i]) # Len(n_items[j])
            THEN Len(n_items[i]) < Len(n_items[j])
            ELSE i < j

RECURSIVE WorkerSorted(_, _)
WorkerSorted(atoms, set) ==
    IF set = {} THEN << >>
    ELSE LET f == CHOOSE i \in set :
                     \A j \in set \ {i} : WorkerBefore(atoms, i, j)
         IN << f >> \o WorkerSorted(atoms, set \ {f})

\* Mutant of RunMatches: an Update run misses the last of the previous matches
\* when it scores them again.
RunMatchesMissLast(status, atoms, matches, item_count) ==
    LET n == Len(n_items)
        fresh == { i \in (item_count + 1)..n : PatternMatches(atoms, n_items[i]) }
        base == IF status = "Rescore" THEN 1..item_count
                ELSE IF status = "Update"
                     THEN { matches[i] : i \in 1..(Len(matches) - 1) }
                     ELSE { matches[i] : i \in 1..Len(matches) }
        kept == IF status # "Unchanged" /\ base # {}
                THEN { i \in base : PatternMatches(atoms, n_items[i]) }
                ELSE base
    IN IF atoms = << >> THEN [i \in 1..n |-> i]
       ELSE WorkerSorted(atoms, kept \cup fresh)

\* Mutant of RunMatches: the previous matches that no longer match are kept.
RunMatchesNoDrop(status, atoms, matches, item_count) ==
    LET n == Len(n_items)
        fresh == { i \in (item_count + 1)..n : PatternMatches(atoms, n_items[i]) }
        base == IF status = "Rescore" THEN 1..item_count
                ELSE { matches[i] : i \in 1..Len(matches) }
    IN IF atoms = << >> THEN [i \in 1..n |-> i]
       ELSE WorkerSorted(atoms, base \cup fresh)

\* Worker::run(pattern_status): the matches after a run.  With an empty
\* pattern every item matches, in injection order.  Otherwise a Rescore run
\* starts from every item processed so far, any other run from the previous
\* matches; those are scored again against the new pattern and dropped when
\* they do not match (an Update run looks at no item that did not match
\* before), and the items not processed so far are matched and added.
RunMatches(status, atoms, matches, item_count) ==
    LET n == Len(n_items)
        fresh == { i \in (item_count + 1)..n : PatternMatches(atoms, n_items[i]) }
        base == IF status = "Rescore" THEN 1..item_count
                ELSE { matches[i] : i \in 1..Len(matches) }
        kept == IF status # "Unchanged" /\ base # {}
                THEN { i \in base : PatternMatches(atoms, n_items[i]) }
                ELSE base
    IN IF atoms = << >> THEN [i \in 1..n |-> i]
       ELSE WorkerSorted(atoms, kept \cup fresh)

\* The run the worker pool was given finishes and releases the worker lock.
WorkerRun ==
    /\ w_job # NoJob
    /\ w_matches' = RunMatches(w_job, w_atoms, w_matches, w_item_count)
    /\ w_item_count' = Len(n_items)
    /\ w_running' = TRUE
    /\ w_was_canceled' = FALSE
    /\ w_job' = NoJob
    /\ UNCHANGED << appVars, corpusVars, patternVars, tickVars, outsideVars,
                    n_canceled, snapshot, w_atoms >>

\* The run sees the cancel flag while sorting: the matches are scored but the
\* run counts as canceled.
WorkerRunCanceled ==
    /\ w_job # NoJob
    /\ n_canceled
    /\ w_matches' = RunMatches(w_job, w_atoms, w_matches, w_item_count)
    /\ w_item_count' = Len(n_items)
    /\ w_running' = TRUE
    /\ w_was_canceled' = TRUE
    /\ w_job' = NoJob
    /\ UNCHANGED << appVars, corpusVars, patternVars, tickVars, outsideVars,
                    n_canceled, snapshot, w_atoms >>

\* ------------------------------------------------------- nucleo: the driver

\* MultiPattern::reparse(0, text, Ignore, Smart, append): the status becomes
\* Update when append is set, no Rescore is pending and the old pattern does
\* not end in a negated atom; Rescore otherwise.
ReparseStatus(append) ==
    IF /\ append
       /\ n_status # "Rescore"
       /\ (n_atoms = << >> \/ ~n_atoms[Len(n_atoms)].negative)
    THEN "Update" ELSE "Rescore"

\* Mutant of update_pattern: the worker is never told of the new pattern.
update_pattern_unpushed(text) ==
    /\ pattern' = text
    /\ issued' = issued \cup { text }
    /\ UNCHANGED << n_status, n_atoms >>

\* RepoMatcher::update_pattern: append is always true.
update_pattern(text) ==
    /\ pattern' = text
    /\ n_status' = ReparseStatus(TRUE)
    /\ n_atoms' = ParseAtoms(text)
    /\ issued' = issued \cup { text }

\* Mutant of AfterTick: the loop does not look at should_exit.
AfterTickNoExit == "poll"

\* run(): after the tick the frame is drawn and should_exit ends the loop.
AfterTick == IF should_exit THEN "done" ELSE "poll"

\* Mutant of SnapshotAfterLock: with no finished run to take over the snapshot
\* is emptied.
SnapshotAfterLockCleared ==
    IF w_running /\ ~w_was_canceled THEN w_matches ELSE << >>

\* tick_inner, once the worker lock is held: a finished run that was not
\* canceled becomes the snapshot.
SnapshotAfterLock ==
    IF w_running /\ ~w_was_canceled THEN w_matches ELSE snapshot

\* App::tick -> RepoMatcher::tick -> Nucleo::tick(100), entry: a changed
\* pattern cancels the run in flight and waits for the worker lock; otherwise
\* the lock is tried for the timeout.
Tick ==
    /\ tick_pc = "tick"
    /\ tick_status' = n_status
    /\ IF n_status # "Unchanged"
       THEN /\ n_status' = "Unchanged"
            /\ n_canceled' = TRUE
            /\ tick_pc' = "lock"
       ELSE /\ tick_pc' = "trylock"
            /\ UNCHANGED << n_status, n_canceled >>
    /\ UNCHANGED << appVars, corpusVars, workerVars, outsideVars, snapshot,
                    pattern, n_atoms, issued, edits, before_edit >>

\* tick_inner(canceled = true): the lock is taken when the run in flight has
\* ended; the worker gets the new pattern and a run with the status read on
\* entry is started.
TickLocked ==
    /\ tick_pc = "lock"
    /\ w_job = NoJob
    /\ snapshot' = SnapshotAfterLock
    /\ w_running' = FALSE
    /\ w_atoms' = n_atoms
    /\ n_canceled' = FALSE
    /\ w_job' = tick_status
    /\ tick_pc' = "trylock"
    /\ UNCHANGED << appVars, corpusVars, patternVars, outsideVars, tick_status,
                    w_matches, w_item_count, w_was_canceled >>

\* tick_inner(canceled = false), lock taken within the timeout: a run is
\* started only when items were injected that the worker has not processed.
TickTryLocked ==
    /\ tick_pc = "trylock"
    /\ w_job = NoJob
    /\ snapshot' = SnapshotAfterLock
    /\ w_running' = FALSE
    /\ IF Len(n_items) > w_item_count
       THEN /\ w_atoms' = n_atoms
            /\ n_canceled' = FALSE
            /\ w_job' = "Unchanged"
       ELSE UNCHANGED << w_atoms, n_canceled, w_job >>
    /\ tick_pc' = AfterTick
    /\ UNCHANGED << appVars, corpusVars, patternVars, outsideVars, tick_status,
                    w_matches, w_item_count, w_was_canceled >>

\* tick_inner(canceled = false), the run in flight outlasts the timeout.
TickTimedOut ==
    /\ tick_pc = "trylock"
    /\ w_job # NoJob
    /\ tick_pc' = AfterTick
    /\ UNCHANGED << appVars, corpusVars, patternVars, workerVars, outsideVars,
                    tick_status, n_canceled, snapshot >>

\* ------------------------------------------------------------ App: the keys

Range(seq) == { seq[i] : i \in 1..Len(seq) }

\* Matching has converged: no pattern change is pending or being handed to
\* the worker, no run is in flight and the last run's result has been taken
\* into the snapshot.
Converged ==
    /\ n_status = "Unchanged"
    /\ tick_pc # "lock"
    /\ w_job = NoJob
    /\ ~w_running
    /\ w_item_count = Len(n_items)

\* The matched set the snapshot shows.
SnapshotSet == Range(snapshot)

\* What is on screen when an edit key arrives.
Shown == IF Converged THEN Some(SnapshotSet) ELSE None

\* Mutant of AfterKey: after a key the loop polls again before it ticks.
AfterKeyPoll(action) == IF action # None THEN "done" ELSE "poll"

\* run(): a returned URL ends the loop, anything else goes on to the next tick.
AfterKey(action) == IF action # None THEN "done" ELSE "tick"

\* Mutant of on_char: the selection is not reset.
on_char_keep_selection(c) ==
    /\ input_pattern' = Append(input_pattern, c)
    /\ update_pattern(input_pattern')
    /\ UNCHANGED selected_index

\* App::on_char
on_char(c) ==
    /\ input_pattern' = Append(input_pattern, c)
    /\ update_pattern(input_pattern')
    /\ selected_index' = 0

\* Mutant of on_backspace: the whole pattern is cleared.
on_backspace_clear ==
    /\ input_pattern' = << >>
    /\ update_pattern(input_pattern')
    /\ selected_index' = 0

\* App::on_backspace: String::pop does nothing on an empty string.
on_backspace ==
    /\ input_pattern' = IF input_pattern = << >> THEN << >>
                        ELSE SubSeq(input_pattern, 1, Len(input_pattern) - 1)
    /\ update_pattern(input_pattern')
    /\ selected_index' = 0

\* App::on_up
on_up ==
    selected_index' = IF match_count > 0 /\ selected_index > 0
                      THEN selected_index - 1 ELSE selected_index

\* Mutant of on_down: the count > 0 guard is dropped, so that on an empty list
\* the index moves to (0 + 1).min(usize::MAX).
on_down_unguarded ==
    selected_index' = IF match_count > 0
                      THEN (IF selected_index + 1 <= match_count - 1
                            THEN selected_index + 1 ELSE match_count - 1)
                      ELSE selected_index + 1

\* App::on_down
on_down ==
    selected_index' = IF match_count > 0
                      THEN (IF selected_index + 1 <= match_count - 1
                            THEN selected_index + 1 ELSE match_count - 1)
                      ELSE selected_index

\* Mutant of on_enter: the first item of the list is taken, whatever is
\* selected.
on_enter_first ==
    IF matches_sorted = << >> THEN None ELSE items[matches_sorted[1]].url

\* App::on_enter
on_enter ==
    LET item == selected_item
    IN IF item = 0 THEN None ELSE items[item].url

\* The letters a Ctrl chord is modelled for (Ctrl+c and Ctrl+d never reach
\* handle_key_event).
CtrlChars == {"a", "i", "p", "m", "x"}

\* Mutant of on_ctrl_key: the pull requests suffix is misspelt.
on_ctrl_key_pull(c) ==
    IF selected_item = 0 THEN None
    ELSE IF c = "a" THEN items[selected_item].url \o << "/actions" >>
    ELSE IF c = "i" THEN items[selected_item].url \o << "/issues" >>
    ELSE IF c = "p" THEN items[selected_item].url \o << "/pull" >>
    ELSE IF c = "m" THEN items[selected_item].url \o << "/milestones" >>
    ELSE None

\* App::on_ctrl_key
on_ctrl_key(c) ==
    LET item == selected_item
    IN IF item = 0 THEN None
       ELSE IF c = "a" THEN items[item].url \o << "/actions" >>
       ELSE IF c = "i" THEN items[item].url \o << "/issues" >>
       ELSE IF c = "p" THEN items[item].url \o << "/pulls" >>
       ELSE IF c = "m" THEN items[item].url \o << "/milestones" >>
       ELSE None

\* handle_key_event, KeyCode::Char(c) without CONTROL.
KeyChar(c) ==
    /\ tick_pc = "poll"
    /\ edits < MaxEdits
    /\ on_char(c)
    /\ edits' = edits + 1
    /\ before_edit' = [kind |-> "char", shown |-> Shown,
                       text |-> input_pattern]
    /\ last_action' = None
    /\ tick_pc' = AfterKey(last_action')
    /\ UNCHANGED << should_exit, total_orgs, total_repos, corpusVars,
                    workerVars, outsideVars, tick_status, n_canceled, snapshot >>

\* handle_key_event, KeyCode::Backspace.
KeyBackspace ==
    /\ tick_pc = "poll"
    /\ edits < MaxEdits
    /\ on_backspace
    /\ edits' = edits + 1
    /\ before_edit' = [kind |-> "backspace", shown |-> Shown,
                       text |-> input_pattern]
    /\ last_action' = None
    /\ tick_pc' = AfterKey(last_action')
    /\ UNCHANGED << should_exit, total_orgs, total_repos, corpusVars,
                    workerVars, outsideVars, tick_status, n_canceled, snapshot >>

\* handle_key_event, KeyCode::Up.
KeyUp ==
    /\ tick_pc = "poll"
    /\ on_up
    /\ last_action' = None
    /\ tick_pc' = AfterKey(last_action')
    /\ UNCHANGED << input_pattern, should_exit, total_orgs, total_repos,
                    corpusVars, patternVars, workerVars, outsideVars,
                    tick_status, n_canceled, snapshot >>

\* handle_key_event, KeyCode::Down.
KeyDown ==
    /\ tick_pc = "poll"
    /\ on_down
    /\ last_action' = None
    /\ tick_pc' = AfterKey(last_action')
    /\ UNCHANGED << input_pattern, should_exit, total_orgs, total_repos,
                    corpusVars, patternVars, workerVars, outsideVars,
                    tick_status, n_canceled, snapshot >>

\* handle_key_event, KeyCode::Enter.
KeyEnter ==
    /\ tick_pc = "poll"
    /\ last_action' = on_enter
    /\ tick_pc' = AfterKey(last_action')
    /\ UNCHANGED << input_pattern, selected_index, should_exit, total_orgs,
                    total_repos, corpusVars, patternVars, workerVars,
                    outsideVars, tick_status, n_canceled, snapshot >>

\* handle_key_event, KeyCode::Char(c) with CONTROL.
KeyCtrl(c) ==
    /\ tick_pc = "poll"
    /\ last_action' = on_ctrl_key(c)
    /\ tick_pc' = AfterKey(last_action')
    /\ UNCHANGED << input_pattern, selected_index, should_exit, total_orgs,
                    total_repos, corpusVars, patternVars, workerVars,
                    outsideVars, tick_status, n_canceled, snapshot >>

\* handle_key_event, KeyCode::Esc: on_exit.
KeyEsc ==
    /\ tick_pc = "poll"
    /\ should_exit' = TRUE
    /\ last_action' = None
    /\ tick_pc' = AfterKey(last_action')
    /\ UNCHANGED << input_pattern, selected_index, total_orgs, total_repos,
                    corpusVars, patternVars, workerVars, outsideVars,
                    tick_status, n_canceled, snapshot >>

\* run(): Ctrl+c or Ctrl+d breaks the loop with no URL.
KeyCtrlCD ==
    /\ tick_pc = "poll"
    /\ last_action' = None
    /\ tick_pc' = "done"
    /\ UNCHANGED << input_pattern, selected_index, should_exit, total_orgs,
                    total_repos, corpusVars, patternVars, workerVars,
                    outsideVars, tick_status, n_canceled, snapshot >>

\* run(): the poll times out, or the event is no key or a key without binding.
NoKey ==
    /\ tick_pc = "poll"
    /\ last_action' = None
    /\ tick_pc' = "tick"
    /\ UNCHANGED << input_pattern, selected_index, should_exit, total_orgs,
                    total_repos, corpusVars, patternVars, workerVars,
                    outsideVars, tick_status, n_canceled, snapshot >>

Next ==
    \/ Tick
    \/ TickLocked
    \/ TickTryLocked
    \/ TickTimedOut
    \/ WorkerRun
    \/ WorkerRunCanceled
    \/ \E c \in Chars : KeyChar(c)
    \/ KeyBackspace
    \/ KeyUp
    \/ KeyDown
    \/ KeyEnter
    \/ \E c \in CtrlChars : KeyCtrl(c)
    \/ KeyEsc
    \/ KeyCtrlCD
    \/ NoKey

Spec == Init /\ [][Next]_vars

\* ------------------------------------------- the session with the '?' key

\* The key the help popup and the status bar bind to the help overlay.
HelpKey == "?"

\* handle_key_event has no arm for '?': the event is KeyCode::Char('?')
\* without CONTROL and takes the arm of every other character.
KeyHelp == KeyChar(HelpKey)

HelpNext == Next \/ KeyHelp

HelpSpec == Init /\ [][HelpNext]_vars

\* ------------------------------------------------ the run loop, scheduled

\* The steps the run loop's own thread takes without waiting for the worker:
\* entering Nucleo::tick and leaving it by the try-lock, taken or timed out.
LoopStep == Tick \/ TickTryLocked \/ TickTimedOut

\* run() executes on the main thread, which keeps running: a step of the loop
\* that is possible is eventually taken.  Nothing is assumed of the worker
\* pool or of the keyboard.
FairSpec == Spec /\ WF_vars(LoopStep)

\* ------------------------------------------------- run(), from call to return

\* The cached data the whole of run() is followed on: the corpora that hold
\* an organization next to their repositories.
RunCorpora == { c \in Corpora : Len(c.orgs) > 0 }

\* run() is entered: the terminal is untouched.  The App of line 210 is a
\* function of what load_repos and load_orgs return, and the cache does not
\* change before the loop is left, so the App's variables hold it from the
\* start; nothing reads them before the loop.
RunInit ==
    /\ \E c \in RunCorpora : CacheHolds(c)
    /\ AppNew(SessionRepos(db_repos), SessionOrgs(db_orgs))
    /\ run_pc = "tty"
    /\ raw_mode = FALSE
    /\ alt_screen = FALSE
    /\ run_result = None
    /\ opened = None
    /\ NoProbe
    /\ NoRemote
    /\ NoGitHub
    /\ NoRaycast

\* return: run() is left with Ok(()) or with an error.
Return(result) ==
    /\ run_pc' = "returned"
    /\ run_result' = Some(result)

\* url.strip_prefix("https://github.com/").unwrap_or(&url)
StripPrefix(url) ==
    IF url # << >> /\ Head(url) = "https://github.com/" THEN Tail(url)
    ELSE url

\* run(): io::stdout().is_terminal(), bail! when it is not.
CheckTty ==
    /\ run_pc = "tty"
    /\ \E tty \in BOOLEAN :
          IF tty THEN run_pc' = "load" /\ UNCHANGED run_result
          ELSE Return("Err")
    /\ UNCHANGED << appVars, corpusVars, patternVars, workerVars, tickVars,
                    probeVars, cacheVars, gitVars, githubVars,
                    raycast, raw_mode, alt_screen,
                    opened, n_canceled, snapshot >>

\* run(): cache.load_repos()? and cache.load_orgs()?
LoadCache ==
    /\ run_pc = "load"
    /\ \E ok \in BOOLEAN :
          IF ok THEN run_pc' = "raw" /\ UNCHANGED run_result
          ELSE Return("Err")
    /\ UNCHANGED << appVars, corpusVars, patternVars, workerVars, tickVars,
                    probeVars, cacheVars, gitVars, githubVars,
                    raycast, raw_mode, alt_screen,
                    opened, n_canceled, snapshot >>

\* run(): enable_raw_mode()?
EnableRawMode ==
    /\ run_pc = "raw"
    /\ \E ok \in BOOLEAN :
          IF ok THEN /\ raw_mode' = TRUE
                     /\ run_pc' = "alt"
                     /\ UNCHANGED run_result
          ELSE Return("Err") /\ UNCHANGED raw_mode
    /\ UNCHANGED << appVars, corpusVars, patternVars, workerVars, tickVars,
                    probeVars, cacheVars, gitVars, githubVars,
                    raycast, alt_screen, opened,
                    n_canceled, snapshot >>

\* run(): execute!(stdout, EnterAlternateScreen)?
EnterAlternateScreen ==
    /\ run_pc = "alt"
    /\ \E ok \in BOOLEAN :
          IF ok THEN /\ alt_screen' = TRUE
                     /\ run_pc' = "term"
                     /\ UNCHANGED run_result
          ELSE Return("Err") /\ UNCHANGED alt_screen
    /\ UNCHANGED << appVars, corpusVars, patternVars, workerVars, tickVars,
                    probeVars, cacheVars, gitVars, githubVars,
                    raycast, raw_mode, opened,
                    n_canceled, snapshot >>

\* run(): Terminal::new(backend)?, then App::new and the loop.
NewTerminal ==
    /\ run_pc = "term"
    /\ \E ok \in BOOLEAN :
          IF ok THEN run_pc' = "loop" /\ UNCHANGED run_result
          ELSE Return("Err")
    /\ UNCHANGED << appVars, corpusVars, patternVars, workerVars, tickVars,
                    probeVars, cacheVars, gitVars, githubVars,
                    raycast, raw_mode, alt_screen,
                    opened, n_canceled, snapshot >>

\* run(): terminal.draw(...)? fails, on the frame after the tick that brought
\* the loop to the poll or to the should_exit break.
DrawFails ==
    /\ run_pc = "loop"
    /\ tick_pc = "poll" \/ (tick_pc = "done" /\ should_exit)
    /\ Return("Err")
    /\ UNCHANGED << appVars, corpusVars, patternVars, workerVars, tickVars,
                    probeVars, cacheVars, gitVars, githubVars,
                    raycast, raw_mode, alt_screen,
                    opened, n_canceled, snapshot >>

\* run(): event::poll fails: disable_raw_mode and LeaveAlternateScreen are
\* tried, their own results are dropped, and the error is returned.
PollFails ==
    /\ run_pc = "loop"
    /\ tick_pc = "poll"
    /\ \E disabled, left \in BOOLEAN :
          /\ raw_mode' = IF disabled THEN FALSE ELSE raw_mode
          /\ alt_screen' = IF left THEN FALSE ELSE alt_screen
    /\ Return("Err")
    /\ UNCHANGED << appVars, corpusVars, patternVars, workerVars, tickVars,
                    probeVars, cacheVars, gitVars, githubVars,
                    raycast, opened, n_canceled,
                    snapshot >>

\* run(): event::read()? fails after a successful poll.
ReadFails ==
    /\ run_pc = "loop"
    /\ tick_pc = "poll"
    /\ Return("Err")
    /\ UNCHANGED << appVars, corpusVars, patternVars, workerVars, tickVars,
                    probeVars, cacheVars, gitVars, githubVars,
                    raycast, raw_mode, alt_screen,
                    opened, n_canceled, snapshot >>

\* run(): the loop has broken; disable_raw_mode()?
DisableRawMode ==
    /\ run_pc = "loop"
    /\ tick_pc = "done"
    /\ \E ok \in BOOLEAN :
          IF ok THEN /\ raw_mode' = FALSE
                     /\ run_pc' = "leave"
                     /\ UNCHANGED run_result
          ELSE Return("Err") /\ UNCHANGED raw_mode
    /\ UNCHANGED << appVars, corpusVars, patternVars, workerVars, tickVars,
                    probeVars, cacheVars, gitVars, githubVars,
                    raycast, alt_screen, opened,
                    n_canceled, snapshot >>

\* Mutant of LeaveAlternateScreen: the result of leaving the alternate
\* screen is dropped and run() goes on.
LeaveAlternateScreenDropped ==
    /\ run_pc = "leave"
    /\ \E ok \in BOOLEAN :
          /\ alt_screen' = IF ok THEN FALSE ELSE alt_screen
          /\ IF last_action = None THEN Return("Ok")
             ELSE run_pc' = "open" /\ UNCHANGED run_result
    /\ UNCHANGED << appVars, corpusVars, patternVars, workerVars, tickVars,
                    probeVars, cacheVars, gitVars, githubVars,
                    raycast, raw_mode,
                    opened, n_canceled, snapshot >>

\* run(): execute!(terminal.backend_mut(), LeaveAlternateScreen)?, and
\* Ok(()) when the loop broke with no URL.
LeaveAlternateScreen ==
    /\ run_pc = "leave"
    /\ \E ok \in BOOLEAN :
          IF ok THEN /\ alt_screen' = FALSE
                     /\ IF last_action = None THEN Return("Ok")
                        ELSE run_pc' = "open" /\ UNCHANGED run_result
          ELSE Return("Err") /\ UNCHANGED alt_screen
    /\ UNCHANGED << appVars, corpusVars, patternVars, workerVars, tickVars,
                    probeVars, cacheVars, gitVars, githubVars,
                    raycast, raw_mode, opened,
                    n_canceled, snapshot >>

\* run(): open::that(&url)?
OpenUrl ==
    /\ run_pc = "open"
    /\ \E ok \in BOOLEAN :
          IF ok THEN /\ opened' = Some(last_action)
                     /\ run_pc' = "record"
                     /\ UNCHANGED run_result
          ELSE Return("Err") /\ UNCHANGED opened
    /\ UNCHANGED << appVars, corpusVars, patternVars, workerVars, tickVars,
                    probeVars, cacheVars, gitVars, githubVars,
                    raycast, raw_mode, alt_screen,
                    n_canceled, snapshot >>

\* run(): let _ = cache.record_repo_access(full_name) with the URL's text
\* after the prefix; when the UPDATE fails the error is dropped.
RecordUsage(url, ok) ==
    /\ RecordCall(StripPrefix(url), ok)
    /\ UNCHANGED << db_orgs, clock >>

\* Mutant of RecordAccess: the recorded access is written into the session's
\* item as well.
RecordAccessReflected ==
    /\ run_pc = "record"
    /\ \E ok \in BOOLEAN : RecordUsage(last_action, ok)
    /\ Return("Ok")
    /\ items' = [i \in DOMAIN items |->
                    IF items[i].url = last_action
                    THEN [items[i] EXCEPT !.repo.access_count = @ + 1]
                    ELSE items[i]]
    /\ UNCHANGED << appVars, n_items, patternVars, workerVars, tickVars,
                    probeVars, gitVars, githubVars, raycast,
                    raw_mode, alt_screen, opened,
                    n_canceled, snapshot >>

\* run(): the access is recorded and Ok(()) is returned.
RecordAccess ==
    /\ run_pc = "record"
    /\ \E ok \in BOOLEAN : RecordUsage(last_action, ok)
    /\ Return("Ok")
    /\ UNCHANGED << appVars, corpusVars, patternVars, workerVars, tickVars,
                    probeVars, gitVars, githubVars, raycast,
                    raw_mode, alt_screen, opened,
                    n_canceled, snapshot >>

\* The loop of run(), while run() is in it.
RunLoop == run_pc = "loop" /\ Next

RunNext ==
    \/ CheckTty
    \/ LoadCache
    \/ EnableRawMode
    \/ EnterAlternateScreen
    \/ NewTerminal
    \/ RunLoop
    \/ DrawFails
    \/ PollFails
    \/ ReadFails
    \/ DisableRawMode
    \/ LeaveAlternateScreen
    \/ OpenUrl
    \/ RecordAccess

RunSpec == RunInit /\ [][RunNext]_vars

\* -------------------------------------------------- the usage score, alone

\* The repos whose score is computed: every access count up to MaxCount, never
\* accessed or accessed up to MaxHalfDays half days ago or ahead.
ProbeRepos ==
    { NewRepo(<<"a", "/", "x">>, c, l) :
        c \in 0..MaxCount,
        l \in { None } \cup { Some(h) : h \in (-MaxHalfDays)..MaxHalfDays } }

ScoreInit ==
    /\ CacheHolds([repos |-> << >>, orgs |-> << >>])
    /\ AppNew(SessionRepos(db_repos), SessionOrgs(db_orgs))
    /\ TerminalSetUp
    /\ NoRemote
    /\ NoGitHub
    /\ NoRaycast
    /\ probe \in { Some(r) : r \in ProbeRepos }
    /\ probe_out = None

\* combined_score's two reads of a repo: repo.score() and the usage bonus.
ComputeScore ==
    /\ probe # None
    /\ probe_out = None
    /\ probe_out' = Some([score |-> score(probe[1]),
                          usage_bonus |-> usage_bonus(probe[1])])
    /\ UNCHANGED << appVars, corpusVars, patternVars, workerVars, tickVars,
                    sessionVars, cacheVars, gitVars, githubVars,
                    raycast, probe, n_canceled,
                    snapshot >>

ScoreNext == ComputeScore

ScoreSpec == ScoreInit /\ [][ScoreNext]_vars

\* --------------------------------------------------------- the cache, alone

\* Number of writing calls on the cache that are followed.
MaxCacheOps == 2

\* The repositories GitHub can deliver: a/x and a/y of owner a, b/x of owner
\* b, and a/x deleted and created again under a new id.
UpstreamRepos ==
    { RepoNew(1, << "a", "/", "x" >>, OwnerId(<< "a" >>), FALSE),
      RepoNew(2, << "a", "/", "y" >>, OwnerId(<< "a" >>), TRUE),
      RepoNew(3, << "b", "/", "x" >>, OwnerId(<< "b" >>), FALSE),
      RepoNew(4, << "a", "/", "x" >>, OwnerId(<< "a" >>), FALSE) }

\* The organizations GitHub can deliver.
UpstreamOrgs ==
    { OrgNew(OwnerId(<< "a" >>), << "a" >>),
      OrgNew(OwnerId(<< "b" >>), << "b" >>) }

\* A Repo or an Org after count accesses, the last of them at instant last.
Used(x, count, last) ==
    [x EXCEPT !.access_count = count, !.last_accessed_at = Some(last)]

\* The rows a cache can hold before the calls that are followed: a/x and b/x
\* with accesses, a/y without.
PriorRepoRows ==
    { RepoRow(Used(RepoNew(1, << "a", "/", "x" >>, OwnerId(<< "a" >>),
                           FALSE), 2, 1)),
      RepoRow(RepoNew(2, << "a", "/", "y" >>, OwnerId(<< "a" >>), TRUE)),
      RepoRow(Used(RepoNew(3, << "b", "/", "x" >>, OwnerId(<< "b" >>),
                           FALSE), 1, 0)) }

PriorOrgRows ==
    { OrgRow(Used(OrgNew(OwnerId(<< "a" >>), << "a" >>), 3, 1)),
      OrgRow(OrgNew(OwnerId(<< "b" >>), << "b" >>)) }

\* The sequences of up to two members of a set whose keys (a function of the
\* member, given as a record field name) differ.
RepoLists(set) ==
    { << >> } \cup { << r >> : r \in set }
        \cup { << r, q >> : <<r, q>> \in
                 { rq \in set \X set : /\ rq[1].id # rq[2].id
                                       /\ rq[1].full_name # rq[2].full_name } }

OrgLists(set) ==
    { << >> } \cup { << o >> : o \in set }
        \cup { << o, q >> : <<o, q>> \in
                 { oq \in set \X set : /\ oq[1].id # oq[2].id
                                       /\ oq[1].login # oq[2].login } }

\* The repos store_repos is called with: fetched ones, and a/x with accesses.
StoredRepoLists ==
    RepoLists(UpstreamRepos \cup
              { Used(RepoNew(1, << "a", "/", "x" >>, OwnerId(<< "a" >>),
                             FALSE), 5, 2) })

\* The orgs store_orgs is called with: fetched ones, and a with accesses.
StoredOrgLists ==
    OrgLists(UpstreamOrgs \cup
             { Used(OrgNew(OwnerId(<< "a" >>), << "a" >>), 4, 2) })

\* The names record_repo_access is called with: two repositories, the name
\* of an organization entry and the text left of a view shortcut's URL.
RecordedNames ==
    { << "a", "/", "x" >>, << "b", "/", "x" >>, << "a", "/" >>,
      << "a", "/", "x", "/issues" >> }

CacheInit ==
    /\ db_repos \in SUBSET PriorRepoRows
    /\ db_orgs \in SUBSET PriorOrgRows
    /\ clock = 2
    /\ cache_op = NoCacheOp
    /\ AppNew(<< >>, << >>)
    /\ TerminalSetUp
    /\ NoProbe
    /\ NoRemote
    /\ NoGitHub
    /\ NoRaycast

\* The record of a writing call other than record_repo_access.
CacheCall(kind, arg, ok) ==
    [kind |-> kind, arg |-> arg, ok |-> ok, repos_before |-> db_repos,
     orgs_before |-> db_orgs, calls |-> 0, repos_first |-> db_repos,
     n |-> cache_op.n + 1, loaded |-> None]

\* Cache::store_repos(repos): the transaction commits, or an error drops it.
StoreRepos(repos) ==
    /\ cache_op.n < MaxCacheOps
    /\ \E ok \in BOOLEAN :
          /\ db_repos' = IF ok THEN store_repos(db_repos, repos) ELSE db_repos
          /\ cache_op' = CacheCall("store_repos", repos, ok)
    /\ UNCHANGED << appVars, corpusVars, patternVars, workerVars, tickVars,
                    probeVars, sessionVars, gitVars, githubVars,
                    raycast, db_orgs, clock,
                    n_canceled, snapshot >>

\* Cache::store_orgs(orgs)
StoreOrgs(orgs) ==
    /\ cache_op.n < MaxCacheOps
    /\ \E ok \in BOOLEAN :
          /\ db_orgs' = IF ok THEN store_orgs(db_orgs, orgs) ELSE db_orgs
          /\ cache_op' = CacheCall("store_orgs", orgs, ok)
    /\ UNCHANGED << appVars, corpusVars, patternVars, workerVars, tickVars,
                    probeVars, sessionVars, gitVars, githubVars,
                    raycast, db_repos, clock,
                    n_canceled, snapshot >>

\* Cache::record_repo_access(full_name); time passes before the next call.
RecordRepoAccess(full_name) ==
    /\ cache_op.n < MaxCacheOps
    /\ \E ok \in BOOLEAN : RecordCall(full_name, ok)
    /\ clock' = clock + 1
    /\ UNCHANGED << appVars, corpusVars, patternVars, workerVars, tickVars,
                    probeVars, sessionVars, gitVars, githubVars,
                    raycast, db_orgs, n_canceled,
                    snapshot >>

\* refresh_cache: fetch_orgs, store_orgs, fetch_repos, store_repos, each
\* with `?`: it stops before anything is stored (stop = "orgs"), after the
\* orgs are stored (stop = "repos"), or runs to its end (stop = "none").
RefreshCache(orgs, repos, stop) ==
    /\ cache_op.n < MaxCacheOps
    /\ db_orgs' = IF stop = "orgs" THEN db_orgs
                  ELSE store_orgs(db_orgs, orgs)
    /\ db_repos' = IF stop = "none" THEN store_repos(db_repos, repos)
                   ELSE db_repos
    /\ cache_op' = CacheCall("refresh_cache",
                             [orgs |-> orgs, repos |-> repos],
                             stop = "none")
    /\ UNCHANGED << appVars, corpusVars, patternVars, workerVars, tickVars,
                    probeVars, sessionVars, gitVars, githubVars,
                    raycast, clock, n_canceled,
                    snapshot >>

\* cache.load_orgs() and cache.load_repos(), as run() and the export
\* command call them.
LoadCached ==
    /\ cache_op.loaded = None
    /\ cache_op' = [cache_op EXCEPT
                       !.loaded = Some([repos |-> load_repos(db_repos),
                                        orgs |-> load_orgs(db_orgs)])]
    /\ UNCHANGED << appVars, corpusVars, patternVars, workerVars, tickVars,
                    probeVars, sessionVars, gitVars, githubVars,
                    raycast, db_repos, db_orgs,
                    clock, n_canceled, snapshot >>

CacheNext ==
    \/ \E repos \in StoredRepoLists : StoreRepos(repos)
    \/ \E orgs \in StoredOrgLists : StoreOrgs(orgs)
    \/ \E full_name \in RecordedNames : RecordRepoAccess(full_name)
    \/ \E orgs \in OrgLists(UpstreamOrgs), repos \in RepoLists(UpstreamRepos),
          stop \in { "orgs", "repos", "none" } :
             RefreshCache(orgs, repos, stop)
    \/ LoadCached

CacheSpec == CacheInit /\ [][CacheNext]_vars

\* ------------------------------------------------------ git: the remote URL

\* Longest path (in symbols) of a probed remote URL.
MaxPath == 5

\* The text ".git".
DotGit == << ".", "g", "i", "t" >>

SshPrefix == << "git@github.com:" >>
HttpsPrefix == << "https://github.com/" >>
HttpPrefix == << "http://github.com/" >>

\* str::starts_with
StartsWith(s, prefix) ==
    Len(s) >= Len(prefix) /\ SubSeq(s, 1, Len(prefix)) = prefix

\* str::ends_with
EndsWith(s, suffix) ==
    /\ Len(s) >= Len(suffix)
    /\ SubSeq(s, Len(s) - Len(suffix) + 1, Len(s)) = suffix

\* str::strip_prefix(prefix) of a string that starts with it.
AfterPrefix(s, prefix) == SubSeq(s, Len(prefix) + 1, Len(s))

\* path.strip_suffix(".git").unwrap_or(path)
StripDotGit(path) ==
    IF EndsWith(path, DotGit) THEN SubSeq(path, 1, Len(path) - Len(DotGit))
    ELSE path

\* Mutant of ParsePath: a trailing ".git" is not removed.
ParsePathKeepDotGit(path) ==
    LET parts == Split(path, "/")
    IN IF Len(parts) = 2
       THEN Some([owner |-> parts[1], name |-> parts[2]])
       ELSE None

\* The body shared by the two branches of parse_github_url: the path without
\* a trailing ".git" is split at '/', and two parts make a GitHubRepo.
ParsePath(path) ==
    LET parts == Split(StripDotGit(path), "/")
    IN IF Len(parts) = 2
       THEN Some([owner |-> parts[1], name |-> parts[2]])
       ELSE None

\* parse_github_url: the SSH branch, then the HTTPS branch, then the error.
parse_github_url(url) ==
    LET ssh == IF StartsWith(url, SshPrefix)
               THEN ParsePath(AfterPrefix(url, SshPrefix)) ELSE None
        web == IF StartsWith(url, HttpsPrefix)
               THEN ParsePath(AfterPrefix(url, HttpsPrefix))
               ELSE IF StartsWith(url, HttpPrefix)
               THEN ParsePath(AfterPrefix(url, HttpPrefix)) ELSE None
    IN IF ssh # None THEN [ok |-> TRUE, repo |-> ssh[1]]
       ELSE IF web # None THEN [ok |-> TRUE, repo |-> web[1]]
       ELSE [ok |-> FALSE, err |-> "RemoteNotGitHub"]

\* GitHubRepo::base_url
base_url(repo) == HttpsPrefix \o repo.owner \o << "/" >> \o repo.name

\* GitHubRepo::url_for
url_for(repo, page) == base_url(repo) \o << "/" >> \o page

\* The pages the commands of main open.
Pages == { << "issues" >>, << "pulls" >> }

\* What stands before the path of a probed URL: the three GitHub forms,
\* another host, another way of writing an SSH remote, and nothing.
UrlPrefixes ==
    { SshPrefix, HttpsPrefix, HttpPrefix, << "https://gitlab.com/" >>,
      << "ssh://git@github.com/" >>, << >> }

\* A sequence of path symbols as text: G stands for ".git".
RECURSIVE PathText(_)
PathText(syms) ==
    IF syms = << >> THEN << >>
    ELSE (IF Head(syms) = "G" THEN DotGit ELSE << Head(syms) >>)
             \o PathText(Tail(syms))

\* The probed paths: every text of up to MaxPath symbols, a symbol being a
\* letter, '/' or ".git".
ProbePaths ==
    { PathText(syms) :
        syms \in UNION { [1..n -> { "o", "n", "/", "G" }] : n \in 0..MaxPath } }

\* The probed remote URLs.
ProbeUrls == { prefix \o path : prefix \in UrlPrefixes, path \in ProbePaths }

GitInit ==
    /\ CacheHolds([repos |-> << >>, orgs |-> << >>])
    /\ AppNew(SessionRepos(db_repos), SessionOrgs(db_orgs))
    /\ TerminalSetUp
    /\ NoProbe
    /\ remote_url \in { Some(url) : url \in ProbeUrls }
    /\ parsed = None
    /\ NoGitHub
    /\ NoRaycast

\* main, Commands::Issues and its siblings: the origin remote's URL is parsed
\* (get_github_repo) and, when that succeeds, the page's URL is built.
OpenPage(page) ==
    /\ remote_url # None
    /\ parsed = None
    /\ LET r == parse_github_url(remote_url[1])
       IN parsed' = Some([result |-> r,
                          base |-> IF r.ok THEN Some(base_url(r.repo))
                                   ELSE None,
                          page |-> page,
                          url |-> IF r.ok THEN Some(url_for(r.repo, page))
                                  ELSE None])
    /\ UNCHANGED << appVars, corpusVars, patternVars, workerVars, tickVars,
                    probeVars, sessionVars, cacheVars, remote_url,
                    githubVars, raycast,
                    n_canceled, snapshot >>

GitNext == \E page \in Pages : OpenPage(page)

GitSpec == GitInit /\ [][GitNext]_vars

\* ------------------------------------------- GitHub Actions: watch_action

\* Longest list of workflow runs the API answers with.
MaxRuns == 3

\* A run as the API lists it (WorkflowRunResponse); name and head_branch are
\* text that is copied as it is and are left out.
RunResponse(status, conclusion, html_url) ==
    [status |-> status, conclusion |-> conclusion, html_url |-> html_url]

\* The closure of fetch_workflow_runs' map: a WorkflowRun from the response.
WorkflowRun(r) ==
    [status |-> r.status, conclusion |-> r.conclusion, html_url |-> r.html_url]

\* The closure of fetch_workflow_runs' find.
IsRunning(run) ==
    IF run.status = None THEN FALSE
    ELSE run.status[1] = "in_progress" \/ run.status[1] = "queued"

\* Iterator::find with IsRunning.
RECURSIVE FindRunning(_)
FindRunning(runs) ==
    IF runs = << >> THEN None
    ELSE IF IsRunning(Head(runs)) THEN Some(Head(runs))
    ELSE FindRunning(Tail(runs))

\* Mutant of fetch_workflow_runs: the most recent run is returned whatever
\* runs are under way.
fetch_workflow_runs_most_recent(responded, workflow_runs) ==
    IF ~responded THEN [ok |-> FALSE, err |-> "Failed to fetch workflow runs"]
    ELSE IF workflow_runs = << >> THEN [ok |-> TRUE, run |-> None]
    ELSE [ok |-> TRUE, run |-> Some(WorkflowRun(workflow_runs[1]))]

\* GitHubClient::fetch_workflow_runs, given whether the request was answered
\* and the runs the answer lists.
fetch_workflow_runs(responded, workflow_runs) ==
    IF ~responded THEN [ok |-> FALSE, err |-> "Failed to fetch workflow runs"]
    ELSE IF workflow_runs = << >> THEN [ok |-> TRUE, run |-> None]
    ELSE LET runs == [i \in 1..Len(workflow_runs) |->
                         WorkflowRun(workflow_runs[i])]
             running == FindRunning(runs)
         IN IF running # None THEN [ok |-> TRUE, run |-> running]
            ELSE [ok |-> TRUE, run |-> Some(runs[1])]

\* get_github_repo: the origin remote's URL, parsed.
get_github_repo(remote) ==
    IF remote = None THEN [ok |-> FALSE, err |-> "NoRemoteFound"]
    ELSE parse_github_url(remote[1])

\* What watch_action leaves: how far it got, what fetch_workflow_runs
\* returned (None when it was not called or failed) and its own result.
Watched(stage, fetched, result) ==
    [stage |-> stage, fetched |-> fetched, result |-> result]

WatchErr(err) == [ok |-> FALSE, err |-> err, url |-> None]

\* watch_action.  branch is what get_current_branch finds (None when HEAD is
\* not a branch), client whether GitHubClient::new succeeds, responded
\* whether the API answers the request.
watch_action(branch, client, responded) ==
    /\ api_runs # None
    /\ watch = None
    /\ LET repo == get_github_repo(remote_url)
           got == fetch_workflow_runs(responded, api_runs[1])
       IN watch' =
            IF ~repo.ok THEN Some(Watched("repo", None, WatchErr(repo.err)))
            ELSE IF branch = None
            THEN Some(Watched("branch", None, WatchErr("HEAD is not a branch")))
            ELSE IF ~client
            THEN Some(Watched("client", None,
                              WatchErr("Failed to create GitHub client")))
            ELSE IF ~got.ok
            THEN Some(Watched("fetch", None, WatchErr(got.err)))
            ELSE IF got.run = None
            THEN Some(Watched("match", Some(got.run),
                              WatchErr("No workflow runs found")))
            ELSE Some(Watched("match", Some(got.run),
                              [ok |-> TRUE, status |-> got.run[1].status,
                               conclusion |-> got.run[1].conclusion,
                               url |-> Some(got.run[1].html_url)]))
    /\ UNCHANGED << appVars, corpusVars, patternVars, workerVars, tickVars,
                    probeVars, sessionVars, cacheVars, gitVars, api_runs,
                    api_pages, fetch, raycast, n_canceled, snapshot >>

\* The states a run is listed in: no status, under way, waiting, finished.
RunStates ==
    { << None, None >>, << Some("in_progress"), None >>,
      << Some("queued"), None >>, << Some("completed"), Some("success") >> }

\* The answers of the API: up to MaxRuns runs in any states, the run at
\* place i having the page << "run", i >>.
ApiRunLists ==
    UNION { { [i \in 1..n |-> RunResponse(f[i][1], f[i][2], << "run", i >>)] :
                f \in [1..n -> RunStates] } : n \in 0..MaxRuns }

\* The origin remotes watch_action is run on: a GitHub one, another host's,
\* and none.
WatchRemotes ==
    { Some(HttpsPrefix \o << "o", "/", "n" >>),
      Some(<< "https://gitlab.com/" >> \o << "o", "/", "n" >>), None }

WatchInit ==
    /\ CacheHolds([repos |-> << >>, orgs |-> << >>])
    /\ AppNew(SessionRepos(db_repos), SessionOrgs(db_orgs))
    /\ TerminalSetUp
    /\ NoProbe
    /\ remote_url \in WatchRemotes
    /\ parsed = None
    /\ api_runs \in { Some(runs) : runs \in ApiRunLists }
    /\ watch = None
    /\ api_pages = None
    /\ fetch = None
    /\ NoRaycast

WatchNext ==
    \E branch \in { Some(<< "m" >>), None }, client, responded \in BOOLEAN :
        watch_action(branch, client, responded)

WatchSpec == WatchInit /\ [][WatchNext]_vars

\* ------------------------------------------- GitHubClient::fetch_repos

\* The page size of every listing (per_page=100), scaled down.
PerPage == 2
\* Number of page requests followed in one fetch.
MaxRequests == 4

\* A repository as the API lists it (octocrab::models::Repository); the
\* description, language and default branch are copied as they are and are
\* left out.
ApiRepo(id, name, full_name, owner, archived, private) ==
    [id |-> id, name |-> name, full_name |-> full_name, owner |-> owner,
     archived |-> archived, private |-> private]

ApiOwner(id, login) == [id |-> id, login |-> login]

\* The authenticated user (client.current().user()).
CurrentUser == ApiOwner(20, << "u" >>)

\* The repositories the API lists: a/x; the same repository listed again
\* after it was renamed, with the optional fields absent; an archived
\* repository; a repository listed without its owner.
ApiRepoPool ==
    { ApiRepo(1, << "x" >>, Some(<< "a", "/", "x" >>),
              Some(ApiOwner(11, << "a" >>)), Some(FALSE), Some(TRUE)),
      ApiRepo(1, << "y" >>, None, Some(ApiOwner(11, << "a" >>)), None, None),
      ApiRepo(2, << "z" >>, Some(<< "a", "/", "z" >>),
              Some(ApiOwner(11, << "a" >>)), Some(TRUE), Some(FALSE)),
      ApiRepo(3, << "w" >>, Some(<< "a", "/", "w" >>), None, Some(FALSE),
              Some(FALSE)) }

\* The organizations the API lists.
ApiOrgPool == { ApiOwner(21, << "o" >>), ApiOwner(22, << "p" >>) }

\* The pages a listing can answer with: up to PerPage entries.
PagesOf(pool) == UNION { [1..n -> pool] : n \in 0..PerPage }

\* repo.archived.unwrap_or(false)
ApiArchived(repo) == IF repo.archived = None THEN FALSE ELSE repo.archived[1]

\* The Repo::new(...) of fetch_repos: the Repo a listed repository becomes.
RepoOfApi(repo) ==
    RepoNew(repo.id,
            IF repo.full_name = None
            THEN repo.owner[1].login \o << "/" >> \o repo.name
            ELSE repo.full_name[1],
            repo.owner[1].id,
            IF repo.private = None THEN FALSE ELSE repo.private[1])

\* Mutant of KeepRepos: seen_ids is not consulted.
RECURSIVE KeepReposNoSeen(_, _)
KeepReposNoSeen(acc, page) ==
    IF page = << >> \/ ~acc.ok THEN acc
    ELSE LET repo == Head(page)
         IN IF ApiArchived(repo) THEN KeepReposNoSeen(acc, Tail(page))
            ELSE IF repo.owner = None
            THEN [acc EXCEPT !.ok = FALSE,
                             !.seen_ids = @ \cup { repo.id }]
            ELSE KeepReposNoSeen(
                     [acc EXCEPT !.repos = Append(@, RepoOfApi(repo)),
                                 !.seen_ids = @ \cup { repo.id }],
                     Tail(page))

\* The `for repo in page_repos` loops of fetch_repos: archived repositories
\* and ids already seen are skipped; a repository without owner ends the
\* fetch (ok = FALSE).
RECURSIVE KeepRepos(_, _)
KeepRepos(acc, page) ==
    IF page = << >> \/ ~acc.ok THEN acc
    ELSE LET repo == Head(page)
         IN IF ApiArchived(repo) THEN KeepRepos(acc, Tail(page))
            ELSE IF repo.id \in acc.seen_ids THEN KeepRepos(acc, Tail(page))
            ELSE IF repo.owner = None
            THEN [acc EXCEPT !.ok = FALSE,
                             !.seen_ids = @ \cup { repo.id }]
            ELSE KeepRepos(
                     [acc EXCEPT !.repos = Append(@, RepoOfApi(repo)),
                                 !.seen_ids = @ \cup { repo.id }],
                     Tail(page))

\* The `for org in page_orgs` loop of fetch_orgs.
OrgsOfPage(page) == [i \in 1..Len(page) |-> OrgNew(page[i].id, page[i].login)]

\* fetch_repos is about to request the first page of the user's repositories.
FetchStart ==
    [pc |-> "user_repos", page |-> 1, repos |-> << >>, seen_ids |-> { },
     orgs |-> << >>, org |-> 0, failed |-> FALSE, result |-> None]

\* `?`: fetch_repos returns the error.
FetchErr(f, err, request) ==
    [f EXCEPT !.pc = "done", !.failed = request,
              !.result = Some([ok |-> FALSE, err |-> err])]

\* The `for org in &orgs` loop of fetch_repos moves to the org at place k,
\* or, past the last org, fetch_repos returns Ok(repos).
ToOrg(f, k) ==
    IF k > Len(f.orgs)
    THEN [f EXCEPT !.pc = "done", !.org = k,
                   !.result = Some([ok |-> TRUE, repos |-> f.repos])]
    ELSE [f EXCEPT !.pc = "org_user", !.org = k, !.page = 1]

\* A page request and its answer (None when the request failed).
Requested(listing, page, answer) ==
    [listing |-> listing, page |-> page, answer |-> answer]

\* One round of a repository pagination loop: the request, the loop over
\* the page, the test of the page's length (pc = "break" when the loop is
\* left).
RepoPage(f, answer, err) ==
    IF answer = None THEN FetchErr(f, err, TRUE)
    ELSE LET kept == KeepRepos([repos |-> f.repos, seen_ids |-> f.seen_ids,
                                ok |-> TRUE], answer[1])
             g == [f EXCEPT !.repos = kept.repos, !.seen_ids = kept.seen_ids]
         IN IF ~kept.ok THEN FetchErr(g, "Repo missing owner", FALSE)
            ELSE IF Len(answer[1]) < PerPage THEN [g EXCEPT !.pc = "break"]
            ELSE [g EXCEPT !.page = @ + 1]

FetchUnchanged ==
    UNCHANGED << appVars, corpusVars, patternVars, workerVars, tickVars,
                 probeVars, sessionVars, cacheVars, gitVars, api_runs, watch,
                 raycast, n_canceled, snapshot >>

ToFetchOrgs(f) == [f EXCEPT !.pc = "orgs_user"]

\* fetch_repos, the loop over /user/repos.
FetchUserRepos(answer) ==
    /\ fetch # None /\ fetch[1].pc = "user_repos"
    /\ Len(api_pages[1]) < MaxRequests
    /\ api_pages' = Some(Append(api_pages[1],
                                Requested(<< "user" >>, fetch[1].page,
                                          answer)))
    /\ LET g == RepoPage(fetch[1], answer,
                         "Failed to fetch user repositories")
       IN fetch' = Some(IF g.pc = "break" THEN ToFetchOrgs(g) ELSE g)
    /\ FetchUnchanged

\* fetch_orgs, the request for the current user.
FetchOrgsUser(ok) ==
    /\ fetch # None /\ fetch[1].pc = "orgs_user"
    /\ fetch' = Some(IF ok THEN [fetch[1] EXCEPT !.pc = "orgs_page",
                                                 !.page = 1]
                     ELSE FetchErr(fetch[1], "Failed to get current user",
                                   TRUE))
    /\ UNCHANGED api_pages
    /\ FetchUnchanged

\* fetch_orgs, the loop over /user/orgs and, after it, the user's own login
\* pushed as an org; then fetch_repos enters its loop over the orgs.
FetchOrgsPage(answer) ==
    /\ fetch # None /\ fetch[1].pc = "orgs_page"
    /\ Len(api_pages[1]) < MaxRequests
    /\ api_pages' = Some(Append(api_pages[1],
                                Requested(<< "orgs" >>, fetch[1].page,
                                          answer)))
    /\ fetch' = Some(
         IF answer = None
         THEN FetchErr(fetch[1], "Failed to fetch organizations", TRUE)
         ELSE LET g == [fetch[1] EXCEPT
                           !.orgs = @ \o OrgsOfPage(answer[1])]
              IN IF Len(answer[1]) < PerPage
                 THEN ToOrg([g EXCEPT
                               !.orgs = Append(@, OrgNew(CurrentUser.id,
                                                         CurrentUser.login))],
                            1)
                 ELSE [g EXCEPT !.page = @ + 1])
    /\ FetchUnchanged

\* fetch_repos, the head of the loop over the orgs: the current user is
\* requested and the org with the user's login is skipped.
FetchOrgUser(ok) ==
    /\ fetch # None /\ fetch[1].pc = "org_user"
    /\ fetch' = Some(
         IF ~ok THEN FetchErr(fetch[1], "current user", TRUE)
         ELSE IF fetch[1].orgs[fetch[1].org].login = CurrentUser.login
         THEN ToOrg(fetch[1], fetch[1].org + 1)
         ELSE [fetch[1] EXCEPT !.pc = "org_repos", !.page = 1])
    /\ UNCHANGED api_pages
    /\ FetchUnchanged

ToNextOrg(f) == ToOrg(f, f.org + 1)

\* fetch_repos, the loop over /orgs/{login}/repos.
FetchOrgRepos(answer) ==
    /\ fetch # None /\ fetch[1].pc = "org_repos"
    /\ Len(api_pages[1]) < MaxRequests
    /\ api_pages' = Some(Append(api_pages[1],
                                Requested(<< "org", fetch[1].org >>,
                                          fetch[1].page, answer)))
    /\ LET g == RepoPage(fetch[1], answer,
                         "Failed to fetch repositories for org")
       IN fetch' = Some(IF g.pc = "break" THEN ToNextOrg(g) ELSE g)
    /\ FetchUnchanged

FetchInit ==
    /\ CacheHolds([repos |-> << >>, orgs |-> << >>])
    /\ AppNew(SessionRepos(db_repos), SessionOrgs(db_orgs))
    /\ TerminalSetUp
    /\ NoProbe
    /\ NoRemote
    /\ api_runs = None
    /\ watch = None
    /\ api_pages = Some(<< >>)
    /\ fetch = Some(FetchStart)
    /\ NoRaycast

FetchNext ==
    \/ \E answer \in { None } \cup { Some(p) : p \in PagesOf(ApiRepoPool) } :
         FetchUserRepos(answer)
    \/ \E ok \in BOOLEAN : FetchOrgsUser(ok)
    \/ \E answer \in { None } \cup { Some(p) : p \in PagesOf(ApiOrgPool) } :
         FetchOrgsPage(answer)
    \/ \E ok \in BOOLEAN : FetchOrgUser(ok)
    \/ \E answer \in { None } \cup { Some(p) : p \in PagesOf(ApiRepoPool) } :
         FetchOrgRepos(answer)

FetchSpec == FetchInit /\ [][FetchNext]_vars

\* --------------------------------------------- main: the Raycast search

\* Longest query and largest count the search command is given.
MaxQuery == 2
MaxResults == 3

\* Iterator::take(count)
Take(seq, count) ==
    SubSeq(seq, 1, IF count < Len(seq) THEN count ELSE Len(seq))

\* matcher.matches_sorted().into_iter().take(count)
\*     .map(|item| item.full_name.clone()).collect()
RaycastResults(count) ==
    LET taken == Take(matches_sorted, count)
    IN [i \in 1..Len(taken) |-> items[taken[i]].full_name]

\* The queries: every text of up to MaxQuery characters.
Queries == UNION { [1..n -> Chars] : n \in 0..MaxQuery }

\* The command has opened the cache, loaded it and built its RepoMatcher.
RaycastInit ==
    /\ \E c \in Corpora : CacheHolds(c)
    /\ AppNew(SessionRepos(db_repos), SessionOrgs(db_orgs))
    /\ TerminalSetUp
    /\ NoProbe
    /\ NoRemote
    /\ NoGitHub
    /\ raycast \in { Some([pc |-> "new", query |-> q, count |-> n,
                           output |-> None]) :
                       q \in Queries, n \in 0..MaxResults }

\* matcher.update_pattern(query)
RaycastUpdatePattern ==
    /\ raycast # None /\ raycast[1].pc = "new"
    /\ update_pattern(raycast[1].query)
    /\ raycast' = Some([raycast[1] EXCEPT !.pc = "tick"])
    /\ UNCHANGED << appVars, corpusVars, workerVars, tickVars, probeVars,
                    sessionVars, cacheVars, gitVars, githubVars, edits,
                    before_edit, n_canceled, snapshot >>

\* matcher.tick(): Nucleo::tick(100) from its entry to its return, and the
\* worker's run beside it.
RaycastTick ==
    /\ raycast # None /\ raycast[1].pc = "tick"
    /\ tick_pc # "poll"
    /\ Tick \/ TickLocked \/ TickTryLocked \/ TickTimedOut \/ WorkerRun

\* The results are collected and printed.
RaycastPrint ==
    /\ raycast # None /\ raycast[1].pc = "tick"
    /\ tick_pc = "poll"
    /\ raycast' = Some([raycast[1] EXCEPT
                           !.pc = "done",
                           !.output = Some(RaycastResults(raycast[1].count))])
    /\ UNCHANGED << appVars, corpusVars, patternVars, workerVars, tickVars,
                    probeVars, sessionVars, cacheVars, gitVars, githubVars,
                    n_canceled, snapshot >>

RaycastNext ==
    \/ RaycastUpdatePattern
    \/ RaycastTick
    \/ RaycastPrint

RaycastSpec == RaycastInit /\ [][RaycastNext]_vars

\* =================================================================== claims

\* The items the engine matches to a pattern text when it looks at every item.
MatchedSet(text) ==
    { i \in 1..Len(n_items) : PatternMatches(ParseAtoms(text), n_items[i]) }

\* The ordered view of a pattern text matched against the whole corpus.
FreshView(text) ==
    SortByScore(Looked(RunMatches("Rescore", ParseAtoms(text), << >>,
                                  Len(n_items))))

\* C1 (as claimed): in every reachable state selected_index < match_count
\* when match_count > 0, and selected_index = 0 when match_count = 0.
C1_SelectionClamp ==
    /\ (match_count > 0 => selected_index < match_count)
    /\ (match_count = 0 => selected_index = 0)

\* C2 (as claimed): once matching has converged the ordered result depends on
\* the current pattern alone: it is the view a match of that pattern against
\* the whole corpus gives, whatever edits led to the pattern.
C2_HistoryIndependent ==
    Converged => matches_sorted = FreshView(input_pattern)

\* C4 (as claimed): the matched set read from the snapshot is the complete
\* matched set of one pattern that was set earlier or of the initial empty
\* pattern, never a mixture.  (The empty snapshot before the first matching
\* pass has been taken over is not held against the claim.)
C4_SnapshotOfOnePattern ==
    \/ snapshot = << >>
    \/ \E text \in issued : SnapshotSet = MatchedSet(text)

\* C5 (as claimed): once repeated ticks have converged the snapshot is the
\* matched set of the last pattern issued, never that of an earlier pattern.
C5_LastPatternWins ==
    Converged => SnapshotSet = MatchedSet(pattern)

OrderKey(k) ==
    combined_score(items[k], PatternScore(n_atoms, items[k].full_name))

\* C6 (as claimed): the ordered view is sorted by raw_score + usage_bonus,
\* highest first, raw_score being the engine's match quality of the item.
C6_RankedByOrderKey ==
    Converged =>
        \A i, j \in 1..Len(matches_sorted) :
            i < j => ~FracLess(OrderKey(matches_sorted[i]),
                               OrderKey(matches_sorted[j]))

\* C7 (as claimed): matched items with equal order key appear in the corpus's
\* original sequence.
C7_TiesInCorpusOrder ==
    Converged =>
        \A i, j \in 1..Len(matches_sorted) :
            (i < j /\ OrderKey(matches_sorted[i]) = OrderKey(matches_sorted[j]))
                => matches_sorted[i] < matches_sorted[j]

\* C7 (amended): matched items with equal sort key (100 + usage bonus) keep
\* the relative order they have in the engine's snapshot; with the empty
\* pattern that is the corpus's original sequence.
C7_TiesInSnapshotOrder ==
    LET ms == matches_sorted
        lk == Looked(snapshot)
        pos == [k \in Range(lk) |-> CHOOSE p \in 1..Len(lk) : lk[p] = k]
        key == [k \in Range(lk) |-> SortKey(k)]
    IN /\ \A i, j \in 1..Len(ms) :
             (i < j /\ key[ms[i]] = key[ms[j]]) => pos[ms[i]] < pos[ms[j]]
       /\ (Converged /\ n_atoms = << >>) =>
             \A i, j \in 1..Len(ms) :
                 (i < j /\ key[ms[i]] = key[ms[j]]) => ms[i] < ms[j]

\* C7 witness: two items of equal sort key are shown against corpus order.
C7_Witness ==
    /\ Converged
    /\ \E i, j \in 1..Len(matches_sorted) :
          /\ i < j
          /\ SortKey(matches_sorted[i]) = SortKey(matches_sorted[j])
          /\ matches_sorted[i] > matches_sorted[j]

\* C8: for every access count and every last_accessed_at (absent, past or
\* future) the usage bonus lies in [0, 30].
C8_UsageBonusBound ==
    probe_out # None =>
        LET b == probe_out[1].usage_bonus
        IN b.den > 0 /\ 0 <= b.num /\ b.num <= 30 * b.den

\* C8 witness: the bonus of a repo used before and stamped more than a day
\* ahead of the clock has been computed.
C8_Witness ==
    /\ probe_out # None
    /\ probe[1].access_count > 0
    /\ probe[1].last_accessed_at # None
    /\ probe[1].last_accessed_at[1] < -2

\* C9: score() = access_count / (d + 1), d being the whole days since
\* last_accessed_at and 30 for a repo never accessed (0 accesses score 0, 10
\* accesses 2 days ago score 10/3), and for a fixed access_count the score
\* never increases as the time since the access grows.
C9_UsageScore ==
    probe_out # None =>
        LET r == probe[1]
            s == probe_out[1].score
        IN /\ s.den > 0
           /\ r.last_accessed_at = None => s.num * 31 = r.access_count * s.den
           /\ (r.last_accessed_at # None /\ r.last_accessed_at[1] >= 0)
                 => s.num * ((r.last_accessed_at[1] \div 2) + 1)
                        = r.access_count * s.den
           /\ r.access_count = 0 => s.num = 0
           /\ r.last_accessed_at # None =>
                 \A h \in (-MaxHalfDays)..MaxHalfDays :
                     h >= r.last_accessed_at[1] =>
                         ~FracLess(s, score([r EXCEPT !.last_accessed_at = Some(h)]))

\* C9 witness: the score of 10 accesses 2 days ago has been computed, 10/3.
C9_Witness ==
    /\ probe_out # None
    /\ probe[1].access_count = 10
    /\ probe[1].last_accessed_at = Some(4)
    /\ probe_out[1].score.num * 3 = 10 * probe_out[1].score.den

\* C10: an unmodified character event c changes the pattern p to p followed
\* by c, hands exactly that pattern to the engine, resets selected_index to
\* 0, returns no action and leaves the exit flag unchanged.
C10_CharacterInput ==
    [][\A c \in Chars :
          KeyChar(c) =>
              /\ input_pattern' = input_pattern \o << c >>
              /\ pattern' = input_pattern \o << c >>
              /\ n_atoms' = ParseAtoms(input_pattern \o << c >>)
              /\ n_status' # "Unchanged"
              /\ selected_index' = 0
              /\ last_action' = None
              /\ should_exit' = should_exit]_vars

\* C10 witness: a character was just typed onto a non-empty pattern while
\* several matches were listed; the engine holds the new pattern, not yet
\* ticked, and the selection is at 0.
C10_Witness ==
    /\ tick_pc = "tick"
    /\ n_status = "Update"
    /\ before_edit.kind = "char"
    /\ Len(input_pattern) >= 2
    /\ pattern = input_pattern
    /\ n_atoms = ParseAtoms(input_pattern)
    /\ match_count >= 2
    /\ selected_index = 0
    /\ ~should_exit

\* C16: after Esc the exit flag stays set, the loop handles no further key
\* event and never waits on the worker's lock, and it ends with no action
\* (no URL to open, no usage to record) whether or not matching has
\* converged; Ctrl+C and Ctrl+D end the session at once with no action, also
\* with an item selected.
C16_Cancel ==
    /\ [][should_exit => should_exit']_vars
    /\ [](should_exit => /\ tick_pc \in {"tick", "trylock", "done"}
                         /\ last_action = None)
    /\ [][KeyCtrlCD => (tick_pc' = "done" /\ last_action' = None)]_vars
    /\ (should_exit ~> (tick_pc = "done" /\ last_action = None))

\* C16 witness: the session has ended after Esc while a worker run for the
\* current pattern was still in flight and an item was selected.
C16_Witness ==
    /\ should_exit
    /\ tick_pc = "done"
    /\ w_job # NoJob
    /\ selected_item # 0

\* C15 (as claimed): the '?' event does nothing but flip the help overlay: it
\* changes neither the pattern, nor selected_index, nor the pattern the match
\* engine holds, and starts no new matching.
C15_HelpToggleOnly ==
    [][KeyHelp => /\ input_pattern' = input_pattern
                  /\ selected_index' = selected_index
                  /\ pattern' = pattern
                  /\ n_atoms' = n_atoms
                  /\ n_status' = n_status]_vars

\* C11: Backspace on a non-empty pattern removes exactly its last character,
\* hands the shortened pattern to the engine and resets selected_index to 0;
\* on an empty pattern the pattern stays empty; no action is returned.
C11_DeleteBackward ==
    [][KeyBackspace =>
          LET shorter == IF input_pattern = << >> THEN << >>
                         ELSE [i \in 1..(Len(input_pattern) - 1) |->
                                  input_pattern[i]]
          IN /\ input_pattern' = shorter
             /\ pattern' = shorter
             /\ n_atoms' = ParseAtoms(shorter)
             /\ n_status' # "Unchanged"
             /\ selected_index' = 0
             /\ last_action' = None
             /\ should_exit' = should_exit]_vars

\* C11 witness: Backspace has just shortened a pattern of several characters
\* to a non-empty one that the engine holds, not yet ticked.
C11_Witness ==
    /\ tick_pc = "tick"
    /\ before_edit.kind = "backspace"
    /\ Len(before_edit.text) >= 2
    /\ Len(input_pattern) = Len(before_edit.text) - 1
    /\ pattern = input_pattern
    /\ n_status # "Unchanged"
    /\ selected_index = 0

\* C12 (as claimed): Up decrements selected_index unless it is 0, Down
\* increments it unless it is match_count - 1, the result lies within
\* [0, match_count - 1], both do nothing on an empty list, and neither
\* changes the pattern, hands anything to the engine or returns an action.
C12_MoveUpDown ==
    [][/\ KeyUp =>
             /\ selected_index' =
                   IF match_count = 0 \/ selected_index = 0
                   THEN selected_index ELSE selected_index - 1
             /\ match_count > 0 => selected_index' <= match_count - 1
             /\ UNCHANGED << input_pattern, pattern, n_atoms, n_status >>
             /\ last_action' = None
       /\ KeyDown =>
             /\ selected_index' =
                   IF match_count = 0 \/ selected_index = match_count - 1
                   THEN selected_index ELSE selected_index + 1
             /\ match_count > 0 => selected_index' <= match_count - 1
             /\ UNCHANGED << input_pattern, pattern, n_atoms, n_status >>
             /\ last_action' = None]_vars

\* C13: Enter returns the URL of the item at selected_index of the ordered
\* match list and no action when the list is empty; pattern, selected_index
\* and the exit flag stay as they are.
C13_Confirm ==
    [][KeyEnter =>
          LET matches == matches_sorted
          IN /\ selected_index < Len(matches) =>
                   last_action' =
                       Url(items[matches[selected_index + 1]].full_name)
             /\ matches = << >> => last_action' = None
             /\ UNCHANGED << input_pattern, pattern, selected_index,
                             should_exit >>]_vars

\* C13 witness: the session has ended on the URL of a selected item that is
\* not the first of the list.
C13_Witness ==
    /\ tick_pc = "done"
    /\ selected_index > 0
    /\ selected_item # 0
    /\ last_action = Url(n_items[selected_item])

\* The suffix the claim gives each view shortcut.
ViewSuffix(c) ==
    CASE c = "a" -> "/actions"
      [] c = "i" -> "/issues"
      [] c = "p" -> "/pulls"
      [] c = "m" -> "/milestones"

\* C14: with an item selected Ctrl+a, Ctrl+i, Ctrl+p and Ctrl+m return the
\* item's URL followed by /actions, /issues, /pulls and /milestones; with no
\* item selected, or for another letter, no action is returned; the letter
\* is never appended to the pattern and selected_index does not change.
C14_ViewShortcuts ==
    [][tick_pc = "poll" =>
          LET item == selected_item
          IN \A c \in CtrlChars :
                KeyCtrl(c) =>
                    /\ last_action' =
                          IF item # 0 /\ c \in {"a", "i", "p", "m"}
                          THEN Url(items[item].full_name) \o << ViewSuffix(c) >>
                          ELSE None
                    /\ UNCHANGED << input_pattern, pattern,
                                    selected_index >>]_vars

\* C14 witness: the session has ended on the pull requests page of a
\* selected item.
C14_Witness ==
    /\ tick_pc = "done"
    /\ selected_item # 0
    /\ last_action = Url(n_items[selected_item]) \o << "/pulls" >>

C18_IdempotentRetick ==
    [][(Converged /\ edits' = edits) =>
          /\ Converged'
          /\ UNCHANGED << items, n_items >>
          /\ Len(snapshot') = match_count
          /\ SortByScore(Looked(snapshot')) = matches_sorted]_vars

\* C18 witness: a tick is under way on a converged result of a non-empty
\* pattern.
C18_Witness ==
    /\ Converged
    /\ tick_pc = "trylock"
    /\ n_atoms # << >>
    /\ snapshot # << >>

\* The corpus of the scenario: a/x never used, a/y used 10 times, last 2 days
\* ago.
ScenarioCorpus ==
    /\ total_repos = 2
    /\ total_orgs = 0
    /\ items[1].repo = NewRepo(<<"a", "/", "x">>, 0, None)
    /\ items[2].repo = NewRepo(<<"a", "/", "y">>, 10, Some(4))

C20_TickEveryFrame ==
    [][/\ tick_pc = "poll" => tick_pc' \in { "poll", "tick", "done" }
       /\ (tick_pc' = "poll" /\ tick_pc # "poll") => tick_pc = "trylock"
       /\ (appVars' # appVars \/ pattern' # pattern) =>
             (tick_pc = "poll" /\ tick_pc' \in { "tick", "done" })
       /\ (tick_pc = "tick" /\ tick_pc' # "tick") =>
             (tick_pc' \in { "lock", "trylock" } /\ UNCHANGED appVars)]_vars

\* C20 witness: with no pattern edit so far, a later frame's tick is under
\* way after the first result was shown.
C20_Witness ==
    /\ tick_pc = "trylock"
    /\ edits = 0
    /\ snapshot # << >>
    /\ Converged

\* C21: with no repos and no orgs every operation is total: after any step
\* the snapshot and the sorted list are empty (match_count is 0), the
\* selection stays at 0 whatever key is pressed, no key returns a URL, and a
\* character or a backspace still edits the input pattern and hands the new
\* text to the engine.
C21_EmptyCorpusTotal ==
    [][items = << >> =>
         /\ snapshot' = << >>
         /\ Len(snapshot') = 0
         /\ SortByScore(Looked(snapshot')) = << >>
         /\ selected_index' = 0
         /\ last_action' = None
         /\ edits' # edits =>
               /\ pattern' = input_pattern'
               /\ n_atoms' = ParseAtoms(input_pattern')
               /\ before_edit'.kind = "char" =>
                     \E c \in Chars : input_pattern' = Append(input_pattern, c)
               /\ before_edit'.kind = "backspace" =>
                     input_pattern' =
                         IF input_pattern = << >> THEN << >>
                         ELSE SubSeq(input_pattern, 1, Len(input_pattern) - 1)]_vars

\* C21 witness: on the empty corpus a character was typed and engine and
\* worker have settled on it, then a backspace arrived and the loop is back
\* at the poll with an empty list.
C21_Witness ==
    /\ items = << >>
    /\ before_edit.kind = "backspace"
    /\ before_edit.text # << >>
    /\ before_edit.shown = Some({})
    /\ tick_pc = "poll"
    /\ snapshot = << >>
    /\ selected_index = 0

\* The repos table as the session loaded it: the table before the only call
\* run() makes on the cache after the load.
ReposAtLoad ==
    IF cache_op.kind = "none" THEN db_repos ELSE cache_op.repos_before

\* C22: the corpus is seeded once and immutable: at every moment of run() the
\* items and the strings given to the engine are those built from the cache
\* as it was loaded, no step of the session (pattern update, tick, worker
\* run, move, confirm, view shortcut, cancel, or the recording of the access
\* after the loop) changes an item or its usage fields, and the usage
\* written to the cache after a confirm does not show in the items.
C22_CorpusImmutable ==
    /\ [](/\ items = AllItems(SessionRepos(ReposAtLoad), SessionOrgs(db_orgs))
          /\ n_items = AllNames(SessionRepos(ReposAtLoad),
                                SessionOrgs(db_orgs)))
    /\ [][UNCHANGED << items, n_items >>]_vars

\* C22 witness: run() has returned after a confirm whose access was written
\* to the cache, and the confirmed item of the session still carries the
\* usage it was loaded with.
C22_Witness ==
    /\ run_result = Some("Ok")
    /\ cache_op.kind = "record_repo_access"
    /\ db_repos # cache_op.repos_before
    /\ edits > 0
    /\ \E i \in DOMAIN items, r \in db_repos :
          /\ r.full_name = items[i].full_name
          /\ items[i].url = last_action
          /\ r.access_count = items[i].repo.access_count + 1

\* A row with one more access, made at instant now.
Accessed(row, now) ==
    [row EXCEPT !.access_count = @ + 1,
                !.last_accessed_at = Some(to_rfc3339(now))]

\* C23: after a confirm on the selected item whose URL was opened and whose
\* access the cache took without an error, the persisted usage of that item
\* (the repos row of a repository entry, the orgs row of an organization
\* entry) has one more access and last_accessed_at = now, and no other row
\* has changed.
C23_UsageRecordedOnConfirm ==
    (/\ run_result = Some("Ok")
     /\ opened # None
     /\ cache_op.kind = "record_repo_access"
     /\ cache_op.ok
     /\ \E k \in DOMAIN items : items[k].url = last_action)
    => LET k == CHOOSE k \in DOMAIN items : items[k].url = last_action
           name == items[k].full_name
       IN IF k <= total_repos
          THEN /\ \E r \in cache_op.repos_before : r.full_name = name
               /\ db_repos = { IF r.full_name = name THEN Accessed(r, clock)
                               ELSE r : r \in cache_op.repos_before }
               /\ db_orgs = cache_op.orgs_before
          ELSE /\ \E o \in cache_op.orgs_before :
                      o.login \o << "/" >> = name
               /\ db_orgs = { IF o.login \o << "/" >> = name
                              THEN Accessed(o, clock)
                              ELSE o : o \in cache_op.orgs_before }
               /\ db_repos = cache_op.repos_before

\* C24: on every path by which run() returns, raw mode is off and the
\* alternate screen has been left (both are still off when run() returns
\* before it has enabled raw mode).
C24_TerminalReleased ==
    run_result # None => (raw_mode = FALSE /\ alt_screen = FALSE)

\* The readings of a URL as one of the accepted forms: a GitHub prefix, an
\* owner, '/', a name, and ".git" or nothing, owner and name without '/'.
UrlReadings(url) ==
    { [owner |-> Split(body, "/")[1], name |-> Split(body, "/")[2],
       dot_git |-> dg] :
        <<body, dg>> \in
            { <<b, d>> \in
                { << IF bd[2]
                     THEN SubSeq(AfterPrefix(url, bd[1]), 1,
                                 Len(AfterPrefix(url, bd[1])) - Len(DotGit))
                     ELSE AfterPrefix(url, bd[1]), bd[2] >> :
                    bd \in { pd \in { SshPrefix, HttpsPrefix, HttpPrefix }
                                    \X BOOLEAN :
                               /\ StartsWith(url, pd[1])
                               /\ pd[2] =>
                                     EndsWith(AfterPrefix(url, pd[1]),
                                              DotGit) } } :
                Len(Split(b, "/")) = 2 } }

\* What the commands get for a reading: the repo, its base URL and the URL
\* of the page.
OpenedFor(reading, page) ==
    [result |-> [ok |-> TRUE,
                 repo |-> [owner |-> reading.owner, name |-> reading.name]],
     base |-> Some(HttpsPrefix \o reading.owner \o << "/" >> \o reading.name),
     page |-> page,
     url |-> Some(HttpsPrefix \o reading.owner \o << "/" >> \o reading.name
                  \o << "/" >> \o page)]

\* C25 as stated: whatever way a URL reads as prefix, owner, '/', name and an
\* optional ".git", the parse returns exactly that owner and name, base_url
\* and url_for are built from them, and a URL with no such reading is
\* rejected with RemoteNotGitHub.
C25_AnyNameParsed ==
    parsed # None =>
        /\ \A rd \in UrlReadings(remote_url[1]) :
              parsed[1] = OpenedFor(rd, parsed[1].page)
        /\ UrlReadings(remote_url[1]) = {} =>
              parsed[1].result = [ok |-> FALSE, err |-> "RemoteNotGitHub"]

\* C25: for any owner and name without '/', the three GitHub forms written
\* with a trailing ".git" parse to exactly (owner, name); written without
\* it they parse to (owner, name) when the name does not itself end in
\* ".git"; base_url and url_for are built from that owner and name; and a
\* URL that reads as none of the forms is rejected with RemoteNotGitHub.
C25_RemoteUrlParsing ==
    parsed # None =>
        /\ \A rd \in UrlReadings(remote_url[1]) :
              (rd.dot_git \/ ~EndsWith(rd.name, DotGit)) =>
                  parsed[1] = OpenedFor(rd, parsed[1].page)
        /\ UrlReadings(remote_url[1]) = {} =>
              parsed[1].result = [ok |-> FALSE, err |-> "RemoteNotGitHub"]

\* C25 witness: an SSH remote written with a trailing ".git" was parsed to
\* its owner and name and the page's URL was built.
C25_Witness ==
    /\ parsed # None
    /\ remote_url[1] = SshPrefix \o << "o", "/", "n" >> \o DotGit
    /\ parsed[1].result = [ok |-> TRUE,
                           repo |-> [owner |-> << "o" >>, name |-> << "n" >>]]
    /\ parsed[1].url = Some(<< "https://github.com/", "o", "/", "n", "/",
                               "issues" >>)

\* C26: when store_repos(R) has committed, whatever the cache held before,
\* load_repos returns exactly the repos of R: each with R's field values,
\* and none that is not in R.
C26_StoreReposReplaces ==
    (/\ cache_op.kind = "store_repos"
     /\ cache_op.ok
     /\ cache_op.loaded # None)
    => Range(cache_op.loaded[1].repos) = Range(cache_op.arg)

\* C27: when store_orgs(O) has committed, whatever the cache held before,
\* load_orgs returns exactly the orgs of O.
C27_StoreOrgsReplaces ==
    (/\ cache_op.kind = "store_orgs"
     /\ cache_op.ok
     /\ cache_op.loaded # None)
    => Range(cache_op.loaded[1].orgs) = Range(cache_op.arg)

\* C28: a refresh keeps the usage history: a repo (an org) that is in the
\* cache before and after refresh_cache has the same access_count and
\* last_accessed_at after it as before.
C28_RefreshKeepsUsage ==
    cache_op.kind = "refresh_cache" =>
        /\ \A b \in cache_op.repos_before, r \in db_repos :
              (b.id = r.id /\ b.full_name = r.full_name) =>
                  /\ r.access_count = b.access_count
                  /\ r.last_accessed_at = b.last_accessed_at
        /\ \A b \in cache_op.orgs_before, o \in db_orgs :
              (b.id = o.id /\ b.login = o.login) =>
                  /\ o.access_count = b.access_count
                  /\ o.last_accessed_at = b.last_accessed_at

\* C29: a successful record_repo_access(n) adds exactly 1 to access_count
\* and sets last_accessed_at to the time of the call in the row whose
\* full_name is n and changes no other row of either table; when no row has
\* that name the call changes nothing (and succeeds all the same: a call
\* fails only when the statement itself does, and then nothing is changed
\* either); after k successful calls in a row for the name of a repo, its
\* count is k above what it was before the first of them.
C29_RecordRepoAccess ==
    cache_op.kind = "record_repo_access" =>
        /\ db_orgs = cache_op.orgs_before
        /\ db_repos =
              IF cache_op.ok
              THEN { IF r.full_name = cache_op.arg
                     THEN Accessed(r, clock - 1) ELSE r :
                       r \in cache_op.repos_before }
              ELSE cache_op.repos_before
        /\ (\A r \in cache_op.repos_before : r.full_name # cache_op.arg)
              => db_repos = cache_op.repos_before
        /\ cache_op.ok =>
              \A f \in cache_op.repos_first :
                 f.full_name = cache_op.arg =>
                    \E r \in db_repos :
                       /\ r.id = f.id
                       /\ r.full_name = f.full_name
                       /\ r.access_count = f.access_count + cache_op.calls

\* C29 witness: two successful calls in a row for a/x, next to b/x and a/y,
\* which were left alone.
C29_Witness ==
    /\ cache_op.kind = "record_repo_access"
    /\ cache_op.ok
    /\ cache_op.calls = 2
    /\ cache_op.arg = << "a", "/", "x" >>
    /\ Cardinality(db_repos) = 3
    /\ \E r \in db_repos :
          /\ r.full_name = << "a", "/", "x" >>
          /\ r.access_count = 4
          /\ r.last_accessed_at = Some(to_rfc3339(3))

\* C30: when Ctrl+a, Ctrl+i, Ctrl+p or Ctrl+m has opened a sub-page of the
\* selected repository and the cache took the call without an error, that
\* repository's row has one more access and last_accessed_at = now, as
\* after a plain confirm, and no other row has changed.
C30_UsageRecordedOnViewShortcut ==
    (/\ run_result = Some("Ok")
     /\ opened # None
     /\ cache_op.kind = "record_repo_access"
     /\ cache_op.ok
     /\ \E k \in 1..total_repos, c \in { "a", "i", "p", "m" } :
           last_action = items[k].url \o << ViewSuffix(c) >>)
    => LET k == CHOOSE k \in 1..total_repos :
                   \E c \in { "a", "i", "p", "m" } :
                      last_action = items[k].url \o << ViewSuffix(c) >>
           name == items[k].full_name
       IN /\ \E r \in cache_op.repos_before : r.full_name = name
          /\ db_repos = { IF r.full_name = name THEN Accessed(r, clock)
                          ELSE r : r \in cache_op.repos_before }
          /\ db_orgs = cache_op.orgs_before

RECURSIVE ServedRepos(_)
ServedRepos(log) ==
    IF log = << >> THEN << >>
    ELSE (IF Head(log).listing # << "orgs" >> /\ Head(log).answer # None
          THEN Head(log).answer[1] ELSE << >>) \o ServedRepos(Tail(log))

\* A request was answered with a full page.
FullPage(request) ==
    request.answer # None /\ Len(request.answer[1]) = PerPage

\* C32: the list fetch_repos returns holds no archived repository, no id
\* twice, and every non-archived repository of every fetched page, as it was
\* listed first; every pagination loop asks for pages 1, 2, ... in order,
\* goes on exactly while a page comes back full and stops at the first page
\* that is not; a failed request ends the whole fetch with an error and no
\* list.
C32_FetchRepos ==
    LET log == api_pages[1]
        f == fetch[1]
        served == ServedRepos(log)
        live == { k \in 1..Len(served) : ~ApiArchived(served[k]) }
        First(k) == CHOOSE m \in live :
                        /\ served[m].id = served[k].id
                        /\ \A n \in live : served[n].id = served[k].id
                                               => m <= n
    IN fetch # None =>
        /\ (f.result # None /\ f.result[1].ok) =>
             LET out == f.result[1].repos
             IN /\ \A i, j \in 1..Len(out) : out[i].id = out[j].id => i = j
                /\ \A i \in 1..Len(out) :
                     /\ \E k \in live : served[k].id = out[i].id
                     /\ \A k \in 1..Len(served) :
                          served[k].id = out[i].id => ~ApiArchived(served[k])
                /\ \A k \in live :
                     \E i \in 1..Len(out) : out[i] = RepoOfApi(served[First(k)])
                /\ \A i \in 1..Len(log) :
                     (i = Len(log) \/ log[i + 1].listing # log[i].listing)
                         => ~FullPage(log[i])
        /\ \A i \in 1..Len(log) :
             /\ log[i].page =
                  1 + Cardinality({ j \in 1..(i - 1) :
                                      log[j].listing = log[i].listing })
             /\ i > 1 =>
                  IF log[i - 1].listing = log[i].listing
                  THEN FullPage(log[i - 1]) /\ log[i].page = log[i - 1].page + 1
                  ELSE ~FullPage(log[i - 1]) /\ log[i].page = 1
             /\ log[i].answer = None =>
                  /\ i = Len(log)
                  /\ f.pc = "done"
                  /\ f.result = Some([ok |-> FALSE, err |-> f.result[1].err])
        /\ (log # << >> /\ FullPage(log[Len(log)]) /\ f.result = None) =>
             /\ f.page = log[Len(log)].page + 1
             /\ f.pc = CASE log[Len(log)].listing = << "user" >> -> "user_repos"
                         [] log[Len(log)].listing = << "orgs" >> -> "orgs_page"
                         [] OTHER -> "org_repos"
        /\ f.failed =>
             /\ f.pc = "done"
             /\ f.result = Some([ok |-> FALSE, err |-> f.result[1].err])

\* A fetch has returned its list after two pages of the user's repositories
\* and a page of an org's; a repository was listed twice in two forms, and
\* an archived repository was listed.
C32_Witness ==
    /\ fetch # None /\ fetch[1].result # None /\ fetch[1].result[1].ok
    /\ Len(api_pages[1]) = 4
    /\ api_pages[1][2].listing = << "user" >>
    /\ api_pages[1][4].listing = << "org", 1 >>
    /\ Len(fetch[1].result[1].repos) = 1
    /\ fetch[1].result[1].repos[1].full_name = << "a", "/", "y" >>
    /\ LET served == ServedRepos(api_pages[1])
       IN /\ \E k \in 1..Len(served) : ApiArchived(served[k])
          /\ \E k \in 1..Len(served) :
                served[k].full_name = Some(<< "a", "/", "x" >>)

\* C33: when the session ends with an action, raw mode is off and the
\* alternate screen is left before the URL is opened; usage is recorded only
\* after that URL was opened successfully, and run() returns Ok whether or
\* not the recording succeeds; when the session ends by cancel, nothing is
\* opened and nothing is recorded.
C33_EndOfSessionOrder ==
    /\ [][opened' # opened =>
            /\ raw_mode = FALSE /\ alt_screen = FALSE
            /\ last_action # None
            /\ opened' = Some(last_action)]_vars
    /\ [](opened # None => (raw_mode = FALSE /\ alt_screen = FALSE))
    /\ [][cache_op' # cache_op =>
            /\ last_action # None
            /\ opened = Some(last_action)
            /\ run_result' = Some("Ok")]_vars
    /\ []((run_result # None /\ last_action = None) =>
            (opened = None /\ cache_op = NoCacheOp /\ db_repos = ReposAtLoad))

\* run() has returned Ok after the URL was opened and the recording of the
\* access failed.
C33_Witness ==
    /\ run_result = Some("Ok")
    /\ opened # None
    /\ raw_mode = FALSE /\ alt_screen = FALSE
    /\ cache_op.kind = "record_repo_access"
    /\ ~cache_op.ok

\* C34: the Raycast search prints at most count names, and they are the first
\* count entries, in ranked order, of the converged match list of the query
\* over the whole cached corpus; the one tick after update_pattern is enough
\* for that.
C34_RaycastSearch ==
    (raycast # None /\ raycast[1].output # None) =>
        LET ranked == FreshView(raycast[1].query)
            out == raycast[1].output[1]
        IN /\ Len(out) <= raycast[1].count
           /\ Len(out) = IF raycast[1].count < Len(ranked)
                         THEN raycast[1].count ELSE Len(ranked)
           /\ \A i \in 1..Len(out) : out[i] = items[ranked[i]].full_name

\* No two entries of the corpus have the same display key.
UniqueKeys == \A i, j \in 1..Len(n_items) : n_items[i] = n_items[j] => i = j

\* C35: on a corpus with unique display keys, in every reachable state the
\* list matches() returns has exactly match_count() entries, holds no item
\* twice and holds exactly the items the engine's snapshot reports as
\* matched; the row of the list that is highlighted at selected_index is the
\* item whose URL a confirm returns.
C35_ListConsistent ==
    UniqueKeys =>
        LET matches == matches_sorted
            list == render_list
        IN /\ Len(matches) = match_count
           /\ \A i, j \in 1..Len(matches) : matches[i] = matches[j] => i = j
           /\ { items[matches[i]].full_name : i \in 1..Len(matches) }
                 = { n_items[snapshot[i]] : i \in 1..Len(snapshot) }
           /\ Len(list.rows) = match_count
           /\ list.selected[1] < Len(list.rows) =>
                /\ on_enter # None
                /\ on_enter = Url(list.rows[list.selected[1] + 1])
                /\ on_enter = items[selected_item].url

\* The list holds several items in another order than the engine's, and the
\* selection is on its second row.
C35_Witness ==
    /\ UniqueKeys
    /\ match_count >= 2
    /\ matches_sorted # Looked(snapshot)
    /\ selected_index = 1
    /\ tick_pc = "poll"

\* C36: in every state in which a confirm event can arrive, a confirm returns
\* an action, the URL of an item of the current list, when match_count > 0,
\* and returns no action only when the match list is empty.
C36_ConfirmNotSwallowed ==
    tick_pc = "poll" =>
        /\ match_count > 0 =>
              /\ on_enter # None
              /\ \E i \in 1..Len(matches_sorted) :
                    on_enter = items[matches_sorted[i]].url
        /\ on_enter = None => match_count = 0

====
